---- MODULE Spec2Model ----
(***************************************************************************)
(* State-machine model of the shared hand tracking module (HandTracking)  *)
(* of Web-Hand-Detection: the detector callback onHandResults, the       *)
(* render-loop tick updateHandTracking, the callback slots and accessors, *)
(* and of the menu application that attaches demos to it and detaches      *)
(* them.                                                                   *)
(*                                                                         *)
(* Numbers.  JavaScript numbers are IEEE doubles; the model keeps them as  *)
(* fixed-point integers and rounds every arithmetic result to the nearest  *)
(* representable value, as the floating-point unit does.  Openness values  *)
(* are counted in units of 1/OScale, landmark coordinates in units of      *)
(* 1/CScale, unit vectors in 1/VScale and quaternion components in         *)
(* 1/QScale.                                                               *)
(***************************************************************************)
EXTENDS Integers, Sequences, FiniteSets, TLC

(***************************************************************************)
(* Resolutions of the fixed-point representation and bounds of the model.  *)
(***************************************************************************)
OScale == 40
CScale == 4000
VScale == 1000
QScale == 100
MaxLostRun == 2
\* launchDemo calls suspended at the same time, and HandTracking.init calls
\* started in one behaviour
MaxPending == 2
MaxInits == 3
\* moves after which the chess game is over at the latest, and AI timers
\* pending at the same time
MaxPly == 3
MaxAiTimers == 1
\* angles of the airplane demo are in 1/AScale radians; the distance flown
\* and the trail saturate at MaxFlown, the heading at +-MaxHeading
AScale == 100
MaxFlown == 2
MaxHeading == 3

(***************************************************************************)
(* Program constants.                                                      *)
(***************************************************************************)
\* const SMOOTHING = 0.12, as the fraction SMOOTHING_NUM / SMOOTHING_DEN
SMOOTHING_NUM == 12
SMOOTHING_DEN == 100
\* if (handSize < 0.001) return 0, as 1 / EPSILON_DEN
EPSILON_DEN == 1000
\* const minRatio = 0.45; const maxRatio = 0.85, in hundredths
minRatio == 45
maxRatio == 85
\* number of landmarks of one hand (indices 0..20)
LAST_LANDMARK == 20
\* const isGrabbing = openness < 0.45
GRAB_NUM == 45
GRAB_DEN == 100
\* Math.PI, as a fraction
PI_NUM == 355
PI_DEN == 113
\* rollSensitivity: 2.5, pitchSensitivity: 1.5 (in tenths)
rollSensitivity == 25
pitchSensitivity == 15
\* targetRoll *= 0.95, currentRoll += (targetRoll - currentRoll) * 0.1,
\* planeRotation.y -= currentRoll * 0.02 (in hundredths)
LEVEL_DECAY == 95
CONTROL_SMOOTHING == 10
TURN_RATE == 2

(***************************************************************************)
(* Arithmetic helpers.                                                     *)
(***************************************************************************)
Abs(n) == IF n < 0 THEN -n ELSE n

\* n / d rounded to the nearest integer (ties away from zero), d > 0
RoundDiv(n, d) == IF n >= 0 THEN (2 * n + d) \div (2 * d)
                            ELSE -((2 * (-n) + d) \div (2 * d))

RECURSIVE SqrtIter(_, _, _)
SqrtIter(n, lo, hi) ==
    IF lo >= hi THEN lo
    ELSE LET mid == (lo + hi + 1) \div 2
         IN  IF mid * mid <= n THEN SqrtIter(n, mid, hi)
                               ELSE SqrtIter(n, lo, mid - 1)

\* Math.sqrt on a non-negative integer, rounded down
MathSqrt(n) == SqrtIter(n, 0, IF n < 46340 THEN n ELSE 46340)

MathMax(a, b) == IF a > b THEN a ELSE b
MathMin(a, b) == IF a < b THEN a ELSE b

(***************************************************************************)
(* Landmarks.  A landmark is a record with fields x and y and, when the    *)
(* detector supplies depth, z.  A landmark set is a function from 0..20 to *)
(* landmarks; null is the empty function.                                  *)
(***************************************************************************)
Null == << >>

\* landmark.z || 0
ZOr0(p) == IF "z" \in DOMAIN p THEN p.z ELSE 0

(***************************************************************************)
(* calculateHandOpenness: openness of one landmark set, in 1/OScale.       *)
(* Lengths are kept in 1/(10*CScale) so that the square roots keep one     *)
(* more digit than the coordinates.                                        *)
(***************************************************************************)
Dist(p, q) ==
    LET dx == p.x - q.x
        dy == p.y - q.y
        dz == ZOr0(p) - ZOr0(q)
    IN  MathSqrt((dx * dx + dy * dy + dz * dz) * 100)

\* the five { tip, base } pairs of the fingers array
fingers == << <<4, 2>>, <<8, 5>>, <<12, 9>>, <<16, 13>>, <<20, 17>> >>

\* handSize: the wrist to middle base knuckle distance, in 1/(10*CScale)
HandSize(landmarks) == Dist(landmarks[9], landmarks[0])

\* handSize < 0.001
BelowEpsilon(landmarks) == HandSize(landmarks) * EPSILON_DEN < 10 * CScale

\* avgRatio: the mean over the five fingers of fingerLength / handSize, in
\* thousandths (for a hand that is not below epsilon)
AvgRatio(landmarks) ==
    LET ratio(i) == RoundDiv(Dist(landmarks[fingers[i][1]],
                                  landmarks[fingers[i][2]]) * 1000,
                             HandSize(landmarks))
    IN  RoundDiv(ratio(1) + ratio(2) + ratio(3) + ratio(4) + ratio(5),
                 Len(fingers))

\* calculateHandOpenness returning the normalized ratio without clamping it
calculateHandOpenness_NoClamp(landmarks) ==
    IF BelowEpsilon(landmarks) THEN 0
    ELSE RoundDiv((AvgRatio(landmarks) - 10 * minRatio) * OScale,
                  10 * (maxRatio - minRatio))

\* calculateHandOpenness returning 0 only for a reference length of exactly 0
calculateHandOpenness_ZeroOnly(landmarks) ==
    IF HandSize(landmarks) = 0 THEN 0
    ELSE MathMax(0, MathMin(OScale,
             RoundDiv((AvgRatio(landmarks) - 10 * minRatio) * OScale,
                      10 * (maxRatio - minRatio))))

\* calculateHandOpenness dividing the finger lengths by a fixed reference of
\* a twentieth of the image instead of the hand's own size
calculateHandOpenness_Absolute(landmarks) ==
    IF BelowEpsilon(landmarks) THEN 0
    ELSE LET ratio(i)   == RoundDiv(Dist(landmarks[fingers[i][1]],
                                         landmarks[fingers[i][2]]) * 1000,
                                    CScale \div 2)
             avgRatio   == RoundDiv(ratio(1) + ratio(2) + ratio(3) + ratio(4)
                                        + ratio(5), Len(fingers))
         IN  MathMax(0, MathMin(OScale,
                 RoundDiv((avgRatio - 10 * minRatio) * OScale,
                          10 * (maxRatio - minRatio))))

calculateHandOpenness(landmarks) ==
    LET wrist     == landmarks[0]
        middleMCP == landmarks[9]
        handSize  == Dist(middleMCP, wrist)
    IN  IF handSize * EPSILON_DEN < 10 * CScale THEN 0
        ELSE LET ratio(i)   == RoundDiv(Dist(landmarks[fingers[i][1]],
                                             landmarks[fingers[i][2]]) * 1000,
                                        handSize)
                 totalRatio == ratio(1) + ratio(2) + ratio(3) + ratio(4) + ratio(5)
                 \* avgRatio in thousandths; (avgRatio - minRatio) / (maxRatio - minRatio)
                 avgRatio   == RoundDiv(totalRatio, Len(fingers))
                 normalized == RoundDiv((avgRatio - 10 * minRatio) * OScale,
                                        10 * (maxRatio - minRatio))
             IN  MathMax(0, MathMin(OScale, normalized))

(***************************************************************************)
(* The 3-D math library (THREE.Vector3, Matrix4, Quaternion) as the module *)
(* uses it.  A vector is a triple; unit vectors are in 1/VScale.  A        *)
(* quaternion is a record [x, y, z, w] in 1/QScale; null where the code    *)
(* holds null.                                                             *)
(***************************************************************************)
\* new THREE.Vector3(l.x - 0.5, -(l.y - 0.5), l.z || 0), in 1/CScale
Vector3(l) == << l.x - CScale \div 2, -(l.y - CScale \div 2), ZOr0(l) >>

subVectors(a, b) == << a[1] - b[1], a[2] - b[2], a[3] - b[3] >>

Dot3(a, b) == a[1] * b[1] + a[2] * b[2] + a[3] * b[3]

\* Vector3.normalize: divideScalar(length() || 1); the result is in 1/VScale
normalize(v) ==
    LET len10 == MathSqrt(Dot3(v, v) * 100)
    IN  IF len10 = 0 THEN v
        ELSE << RoundDiv(v[1] * VScale * 10, len10),
                RoundDiv(v[2] * VScale * 10, len10),
                RoundDiv(v[3] * VScale * 10, len10) >>

\* Vector3.crossVectors of two vectors in 1/VScale, result in 1/VScale
crossVectors(a, b) ==
    << RoundDiv(a[2] * b[3] - a[3] * b[2], VScale),
       RoundDiv(a[3] * b[1] - a[1] * b[3], VScale),
       RoundDiv(a[1] * b[2] - a[2] * b[1], VScale) >>

Quaternion(x, y, z, w) == [x |-> x, y |-> y, z |-> z, w |-> w]

\* new THREE.Quaternion(): the identity rotation
IdentityQuaternion == Quaternion(0, 0, 0, QScale)

\* Matrix4.makeBasis(xAxis, yAxis, zAxis) followed by
\* Quaternion.setFromRotationMatrix: the axes are the columns of the matrix
setFromBasis(xAxis, yAxis, zAxis) ==
    LET m11 == xAxis[1]  m12 == yAxis[1]  m13 == zAxis[1]
        m21 == xAxis[2]  m22 == yAxis[2]  m23 == zAxis[2]
        m31 == xAxis[3]  m32 == yAxis[3]  m33 == zAxis[3]
        trace == m11 + m22 + m33
        \* Math.sqrt(1.0 + d) for d in 1/VScale, result in 1/VScale
        root(d) == MathSqrt(MathMax(0, VScale + d) * VScale)
        quarterS(d) == RoundDiv(root(d) * QScale, 2 * VScale)
        over(n, d)  == IF root(d) = 0 THEN 0 ELSE RoundDiv(n * QScale, 2 * root(d))
    IN  IF trace > 0 THEN
            Quaternion(over(m32 - m23, trace), over(m13 - m31, trace),
                       over(m21 - m12, trace), quarterS(trace))
        ELSE IF m11 > m22 /\ m11 > m33 THEN
            LET d == m11 - m22 - m33
            IN  Quaternion(quarterS(d), over(m12 + m21, d),
                           over(m13 + m31, d), over(m32 - m23, d))
        ELSE IF m22 > m33 THEN
            LET d == m22 - m11 - m33
            IN  Quaternion(over(m12 + m21, d), quarterS(d),
                           over(m23 + m32, d), over(m13 - m31, d))
        ELSE
            LET d == m33 - m11 - m22
            IN  Quaternion(over(m13 + m31, d), over(m23 + m32, d),
                           quarterS(d), over(m21 - m12, d))

DotQ(a, b) == a.x * b.x + a.y * b.y + a.z * b.z + a.w * b.w

\* Math.sin((1 - t) * halfTheta) / sinHalfTheta and
\* Math.sin(t * halfTheta) / sinHalfTheta for t = SMOOTHING * 1.5 = 0.18,
\* in thousandths, tabulated by cosHalfTheta in hundredths (0 .. 100)
SlerpRatioA ==
    << 960, 958, 956, 954, 951, 949, 947, 945, 943, 941, 939, 937,
       935, 933, 931, 929, 927, 925, 924, 922, 920, 918, 916, 915,
       913, 911, 910, 908, 906, 905, 903, 902, 900, 898, 897, 895,
       894, 892, 891, 889, 888, 886, 885, 884, 882, 881, 879, 878,
       877, 875, 874, 873, 871, 870, 869, 868, 866, 865, 864, 863,
       861, 860, 859, 858, 857, 856, 854, 853, 852, 851, 850, 849,
       848, 847, 846, 844, 843, 842, 841, 840, 839, 838, 837, 836,
       835, 834, 833, 832, 831, 830, 829, 828, 827, 826, 825, 825,
       824, 823, 822, 821, 820 >>

SlerpRatioB ==
    << 279, 277, 276, 274, 272, 271, 269, 268, 266, 264, 263, 261,
       260, 259, 257, 256, 254, 253, 252, 250, 249, 248, 246, 245,
       244, 243, 242, 240, 239, 238, 237, 236, 235, 233, 232, 231,
       230, 229, 228, 227, 226, 225, 224, 223, 222, 221, 220, 219,
       218, 217, 216, 215, 215, 214, 213, 212, 211, 210, 209, 209,
       208, 207, 206, 205, 204, 204, 203, 202, 201, 201, 200, 199,
       198, 198, 197, 196, 195, 195, 194, 193, 193, 192, 191, 191,
       190, 189, 189, 188, 187, 187, 186, 185, 185, 184, 184, 183,
       182, 182, 181, 181, 180 >>

\* Quaternion.slerp(qb, t) applied to qa, for t = SMOOTHING * 1.5:
\* the nearer of qb and -qb is approached along the great arc
slerp(qa, qb) ==
    LET dot  == DotQ(qa, qb)
        sign == IF dot < 0 THEN -1 ELSE 1
        cosHalfTheta == sign * dot
        k    == RoundDiv(cosHalfTheta * (Len(SlerpRatioA) - 1), QScale * QScale)
        ratioA == SlerpRatioA[k + 1]
        ratioB == sign * SlerpRatioB[k + 1]
    IN  IF cosHalfTheta >= QScale * QScale THEN qa
        ELSE Quaternion(RoundDiv(qa.x * ratioA + qb.x * ratioB, 1000),
                        RoundDiv(qa.y * ratioA + qb.y * ratioB, 1000),
                        RoundDiv(qa.z * ratioA + qb.z * ratioB, 1000),
                        RoundDiv(qa.w * ratioA + qb.w * ratioB, 1000))

(***************************************************************************)
(* calculateHandRotation: null without the 3-D library, else the           *)
(* quaternion of the basis (right, up, forward) built from the wrist and   *)
(* the index, pinky and middle base knuckles.                              *)
(***************************************************************************)
\* HandBasis without the recalculation of the right vector
HandBasis_NoRecompute(landmarks) ==
    LET wrist     == Vector3(landmarks[0])
        indexMCP  == Vector3(landmarks[5])
        pinkyMCP  == Vector3(landmarks[17])
        middleMCP == Vector3(landmarks[9])
        handUp      == normalize(subVectors(middleMCP, wrist))
        handRight   == normalize(subVectors(indexMCP, pinkyMCP))
        handForward == normalize(crossVectors(handRight, handUp))
    IN  [right |-> handRight, up |-> handUp, forward |-> handForward]

HandBasis(landmarks) ==
    LET wrist     == Vector3(landmarks[0])
        indexMCP  == Vector3(landmarks[5])
        pinkyMCP  == Vector3(landmarks[17])
        middleMCP == Vector3(landmarks[9])
        handUp      == normalize(subVectors(middleMCP, wrist))
        handRight0  == normalize(subVectors(indexMCP, pinkyMCP))
        handForward == normalize(crossVectors(handRight0, handUp))
        handRight   == normalize(crossVectors(handUp, handForward))
    IN  [right |-> handRight, up |-> handUp, forward |-> handForward]

calculateHandRotation(three, landmarks) ==
    IF ~three THEN Null
    ELSE LET b == HandBasis(landmarks)
         IN  setFromBasis(b.right, b.up, b.forward)

(***************************************************************************)
(* Module state (the let-bound variables of the hand tracking module),     *)
(* the environment, and observation variables.                             *)
(*   THREE         whether the 3-D library is loaded (typeof THREE)        *)
(*   detector      whether hands.onResults/camera.start have been reached  *)
(*   calls         the callbacks invoked by the last step, in order        *)
(*   lastOp        the last step: "hand" (a frame with a hand), "nohand"   *)
(*                 (a frame without), "update" or "other"                  *)
(*   prevDetected  _isHandDetected as the last frame found it              *)
(*   reported      the label of the last frame that carried a hand and a   *)
(*                 handedness entry, "none" before the first               *)
(*   absentRun     no-hand frames processed with a "hand lost" callback    *)
(*                 registered since the last hand frame (saturating)       *)
(*   lostRun       "hand lost" invocations since the last hand frame       *)
(*                 (saturating)                                            *)
(*   tickOpenness  smoothed openness as the last update() left it          *)
(*   frameTarget   target openness as the last frame computed it           *)
(*   framesSince   frames processed between the last two update() ticks,   *)
(*                 or since the last tick if frames followed it            *)
(*                 (saturating at 2)                                       *)
(*   overwritten   whether a frame of that interval replaced a different   *)
(*                 target set by an earlier frame of the interval          *)
(*   currentDemo, handTrackingInitialized                                  *)
(*                 the state of the menu application (main.js)             *)
(*   animationId   the demo initialised last if its                        *)
(*                 requestAnimationFrame loop is scheduled, null after     *)
(*                 its destroy and before the first init                   *)
(*   pending       for each demo, the launchDemo calls suspended at        *)
(*                 await HandTracking.init                                 *)
(*   timers        the pending 3 s timers of failed launches, oldest       *)
(*                 first; each remembers whether a demo was initialised    *)
(*                 since it was set                                        *)
(*   live          for each demo, its init() calls without a matching      *)
(*                 destroy()                                               *)
(*   initStarted, initRejected                                             *)
(*                 HandTracking.init calls started, and rejected, by the   *)
(*                 suspended launches                                      *)
(*   timerKilled   whether the timer of a failed launch destroyed a demo   *)
(*                 that was initialised after the failure                  *)
(*   chess, gameStarted, isThinking, grabbedPiece, selectedSquare,         *)
(*   originalPiecePosition, lastGrabState                                  *)
(*                 the state of the chess demo (chess.js); the game is     *)
(*                 the side to move, the number of moves made and whether  *)
(*                 the game is over; a grabbed piece is named by the       *)
(*                 square it was taken from                                *)
(*   handModelVisible                                                      *)
(*                 handModel.visible                                       *)
(*   meshPosition  where the mesh grabbed last is: a square, or <<"hand">> *)
(*                 while it follows the hand                               *)
(*   startTimers, thinkTimers                                              *)
(*                 pending setTimeout(makeAIMove, 300) timers and pending  *)
(*                 thinking timers of makeAIMove                           *)
(*   aiMovedAs     the sides a thinking timer has made a move for          *)
(*   ranOnNull     whether a timer callback ran while chess was null       *)
(*   airplane, planePosition, planeRotation, targetRoll, targetPitch,      *)
(*   currentRoll, currentPitch, trailPositions                             *)
(*                 the state of the airplane demo (airplane.js): angles    *)
(*                 in 1/AScale radians, the position as the frames flown   *)
(*                 from (0, 50, 0) and the trail as its length, both       *)
(*                 saturating                                              *)
(*   registered    the arguments of the last setOnHandUpdate and           *)
(*                 setOnHandLost calls (null before the first), and the    *)
(*                 callbacks a later call of the same setter replaced by   *)
(*                 a different one and that were not registered again      *)
(***************************************************************************)
VARIABLES _handOpenness, _targetHandOpenness, _smoothedOpenness,
          _isHandDetected, _handedness,
          _handRotation, _targetHandRotation, _smoothedHandRotation,
          _landmarks, _showCameraFeed, _onHandUpdate, _onHandLost,
          _previewCtx, THREE, detector,
          calls, lastOp, prevDetected, reported, absentRun, lostRun,
          tickOpenness, frameTarget, framesSince, overwritten, registered,
          currentDemo, handTrackingInitialized, animationId,
          pending, timers, live, initStarted, initRejected, timerKilled,
          chess, gameStarted, isThinking, grabbedPiece, selectedSquare,
          originalPiecePosition, lastGrabState, handModelVisible,
          meshPosition, startTimers, thinkTimers,
          aiMovedAs, ranOnNull,
          airplane, planePosition, planeRotation, targetRoll, targetPitch,
          currentRoll, currentPitch, trailPositions

moduleVars == << _handOpenness, _targetHandOpenness, _smoothedOpenness,
                 _isHandDetected, _handedness,
                 _handRotation, _targetHandRotation, _smoothedHandRotation,
                 _landmarks, _showCameraFeed, _onHandUpdate, _onHandLost,
                 _previewCtx >>

histVars == << calls, lastOp, prevDetected, reported, absentRun, lostRun,
               tickOpenness, frameTarget, framesSince, overwritten,
               registered >>

launchVars == << pending, timers, live, initStarted, initRejected,
                 timerKilled >>

chessVars == << chess, gameStarted, isThinking, grabbedPiece, selectedSquare,
                originalPiecePosition, lastGrabState, handModelVisible,
                meshPosition, startTimers, thinkTimers,
                aiMovedAs, ranOnNull >>

planeVars == << airplane, planePosition, planeRotation, targetRoll,
                targetPitch, currentRoll, currentPitch, trailPositions >>

appVars == << currentDemo, handTrackingInitialized, animationId, launchVars,
              chessVars, planeVars >>

vars == << moduleVars, THREE, detector, histVars, appVars >>

(***************************************************************************)
(* Inputs.  Hands are built from the wrist position w, the image-space     *)
(* vector u from the wrist to the middle base knuckle, the half vector r   *)
(* from the pinky to the index base knuckle, the finger extension e in     *)
(* tenths of |u|, and the depth dz of the knuckles relative to the wrist   *)
(* (no z field at all when depth is FALSE).                                *)
(***************************************************************************)
Pt(x, y, z, depth) == IF depth THEN [x |-> x, y |-> y, z |-> z]
                               ELSE [x |-> x, y |-> y]

MakeHand(w, u, r, e, depth, dz) ==
    LET knuckle(k) == << w[1] + u[1] + (k * r[1]) \div 2,
                         w[2] + u[2] + (k * r[2]) \div 2 >>
        \* base joint of each finger: thumb, index, middle, ring, pinky
        base(f) == CASE f = 0 -> << w[1] + 2 * r[1], w[2] + 2 * r[2] >>
                     [] f = 1 -> knuckle(2)
                     [] f = 2 -> knuckle(0)
                     [] f = 3 -> knuckle(-1)
                     [] f = 4 -> knuckle(-2)
        tip(f)  == << base(f)[1] + (u[1] * e) \div 10,
                      base(f)[2] + (u[2] * e) \div 10 >>
        at(i)   == IF i = 0 THEN w
                   ELSE LET f == (i - 1) \div 4
                            j == (i - 1) % 4
                        IN  IF f = 0 THEN (IF j >= 3 THEN tip(0) ELSE base(0))
                            ELSE (IF j = 3 THEN tip(f) ELSE base(f))
    IN  [i \in 0..LAST_LANDMARK |->
            Pt(at(i)[1], at(i)[2], IF i = 0 THEN 0 ELSE dz, depth)]

Centre == << CScale \div 2, CScale \div 2 >>

\* closed fist, upright, palm to the camera, no depth reported
HandFist == MakeHand(Centre, <<0, -200>>, <<60, 0>>, 4, FALSE, 0)
\* half-open hand, upright, depth reported
HandHalf == MakeHand(Centre, <<0, -200>>, <<60, 0>>, 6, TRUE, 0)
\* fully open hand, upright
HandOpen == MakeHand(Centre, <<0, -200>>, <<60, 0>>, 10, TRUE, 0)
\* closed fist rolled a quarter turn in the image plane
HandRolled == MakeHand(Centre, <<-200, 0>>, <<0, -60>>, 4, TRUE, 0)
\* closed fist, upright, tilted away from the camera
HandTilted == MakeHand(Centre, <<0, -200>>, <<60, 0>>, 4, TRUE, -100)
\* wrist and middle base knuckle coincide
HandDegenerate == MakeHand(Centre, <<0, 0>>, <<60, 0>>, 10, FALSE, 0)
\* wrist and middle base knuckle half a thousandth apart, fingers longer
\* than that
HandTiny == MakeHand(Centre, <<0, -2>>, <<60, 0>>, 12, TRUE, 0)
\* half-open hand leaning to the side, knuckle line not square to it
HandSkewed == MakeHand(Centre, <<120, -160>>, <<60, 20>>, 6, TRUE, -40)

\* every landmark moved to k times its offset from the wrist
ScaleHand(landmarks, k) ==
    LET wrist == landmarks[0]
    IN  [i \in DOMAIN landmarks |->
            Pt(wrist.x + k * (landmarks[i].x - wrist.x),
               wrist.y + k * (landmarks[i].y - wrist.y),
               ZOr0(wrist) + k * (ZOr0(landmarks[i]) - ZOr0(wrist)),
               "z" \in DOMAIN landmarks[i])]

\* factors by which the hands of the geometry model are scaled
Scales == { 2, 3 }

\* finger extensions of the hands of the geometry model, in tenths of the
\* wrist-to-knuckle vector
Extensions == { 0, 4, 5, 6, 7, 8, 9, 12 }

\* hands of three shapes (upright, leaning, tiny), flat and tilted, of every
\* extension, and their scaled copies
GeometryBase ==
    { MakeHand(Centre, s[1], s[2], e, TRUE, dz) :
          s \in { << <<0, -200>>, <<60, 0>> >>,
                  << <<120, -160>>, <<60, 20>> >>,
                  << <<0, -2>>, <<60, 0>> >> },
          e \in Extensions, dz \in { 0, -40 } }

GeometryHands ==
    GeometryBase \cup { ScaleHand(h, k) : h \in GeometryBase, k \in Scales }

AllHands == { HandFist, HandHalf, HandOpen, HandRolled, HandTilted,
              HandDegenerate, HandTiny, HandSkewed } \cup GeometryHands

\* calculateHandOpenness and calculateHandRotation over the hands of the
\* model, evaluated once
OpennessOf == [h \in AllHands |-> calculateHandOpenness(h)]
RotationOf == [three \in BOOLEAN, h \in AllHands |-> calculateHandRotation(three, h)]

\* The results object of one detector frame: multiHandLandmarks and
\* multiHandedness are absent, empty, or lists whose first entry is used.
NoResults == [image |-> "frame"]

Frame(hands, handedness) ==
    [image |-> "frame", multiHandLandmarks |-> hands,
     multiHandedness |-> [i \in DOMAIN handedness |-> [label |-> handedness[i]]]]

\* the frames of the openness model: upright hands of every openness
Frames ==
    { NoResults,
      Frame(<< >>, << >>),
      [image |-> "frame", multiHandLandmarks |-> << HandHalf >>],
      Frame(<< HandFist >>, << "Right" >>),
      Frame(<< HandHalf >>, << >>),
      Frame(<< HandOpen >>, << "Left" >>),
      Frame(<< HandOpen, HandFist >>, << "Right", "Left" >>) }

\* the frames of the orientation model: fists of several orientations
RotationFrames ==
    { NoResults,
      Frame(<< HandFist >>, << "Right" >>),
      Frame(<< HandRolled >>, << "Left" >>),
      Frame(<< HandTilted >>, << "Left" >>) }

\* const demos = { 'cosmic-prism': CosmicPrismDemo, 'airplane': AirplaneDemo }
CosmicPrismDemo == [demo |-> "cosmic-prism"]
AirplaneDemo == [demo |-> "airplane"]
demos == { CosmicPrismDemo, AirplaneDemo }

\* the callbacks main.js registers after HandTracking.init
UiUpdate == [fn |-> "indicator"]
UiLost == [fn |-> "instructions"]

\* callbacks of a second consumer of the module
OtherUpdate == [fn |-> "otherUpdate"]
OtherLost == [fn |-> "otherLost"]

(***************************************************************************)
(* Initial state: the module-level declarations, with or without the 3-D   *)
(* library loaded.                                                         *)
(***************************************************************************)
Init ==
    /\ _handOpenness = 0
    /\ _targetHandOpenness = 0
    /\ _smoothedOpenness = 0
    /\ _isHandDetected = FALSE
    /\ _handedness = "Right"
    /\ _handRotation = Null
    /\ _targetHandRotation = Null
    /\ _smoothedHandRotation = Null
    /\ _landmarks = Null
    /\ _showCameraFeed = FALSE
    /\ _onHandUpdate = Null
    /\ _onHandLost = Null
    /\ _previewCtx = Null
    /\ THREE \in BOOLEAN
    /\ detector = FALSE
    /\ calls = << >>
    /\ lastOp = "other"
    /\ prevDetected = FALSE
    /\ reported = "none"
    /\ absentRun = 0
    /\ lostRun = 0
    /\ tickOpenness = 0
    /\ frameTarget = 0
    /\ framesSince = 0
    /\ overwritten = FALSE
    /\ registered = [update |-> Null, lost |-> Null, replaced |-> { }]
    /\ currentDemo = Null
    /\ handTrackingInitialized = FALSE
    /\ animationId = Null
    /\ pending = [Demo \in demos |-> 0]
    /\ timers = << >>
    /\ live = [Demo \in demos |-> 0]
    /\ initStarted = 0
    /\ initRejected = 0
    /\ timerKilled = FALSE
    /\ chess = Null
    /\ gameStarted = FALSE
    /\ isThinking = FALSE
    /\ grabbedPiece = Null
    /\ selectedSquare = Null
    /\ originalPiecePosition = Null
    /\ lastGrabState = FALSE
    /\ handModelVisible = FALSE
    /\ meshPosition = Null
    /\ startTimers = 0
    /\ thinkTimers = 0
    /\ aiMovedAs = { }
    /\ ranOnNull = FALSE
    /\ airplane = FALSE
    /\ planePosition = 0
    /\ planeRotation = [x |-> 0, y |-> 0, z |-> 0]
    /\ targetRoll = 0
    /\ targetPitch = 0
    /\ currentRoll = 0
    /\ currentPitch = 0
    /\ trailPositions = 0

(***************************************************************************)
(* initQuaternions and initHandTracking.  The synchronous part binds the   *)
(* preview context and creates the quaternions; the detector delivers      *)
(* frames only when the camera was granted (otherwise the error is         *)
(* rethrown before hands.onResults is reached).                            *)
(***************************************************************************)
\* initQuaternions creating the quaternions whether or not the 3-D library
\* is loaded
initQuaternions_Always ==
    /\ _handRotation' = IdentityQuaternion
    /\ _targetHandRotation' = IdentityQuaternion
    /\ _smoothedHandRotation' = IdentityQuaternion

initQuaternions ==
    IF THREE
    THEN /\ _handRotation' = IdentityQuaternion
         /\ _targetHandRotation' = IdentityQuaternion
         /\ _smoothedHandRotation' = IdentityQuaternion
    ELSE UNCHANGED << _handRotation, _targetHandRotation, _smoothedHandRotation >>

initHandTracking(granted) ==
    /\ _previewCtx' = << "2d" >>
    /\ initQuaternions
    /\ detector' = (detector \/ granted)
    /\ calls' = << >>
    /\ lastOp' = "other"
    /\ UNCHANGED << _handOpenness, _targetHandOpenness, _smoothedOpenness,
                    _isHandDetected, _handedness, _landmarks, _showCameraFeed,
                    _onHandUpdate, _onHandLost, THREE,
                    prevDetected, reported, absentRun, lostRun,
                    tickOpenness, frameTarget, framesSince, overwritten,
                    registered >>
    /\ UNCHANGED appVars

(***************************************************************************)
(* onHandResults: one detector frame.                                      *)
(***************************************************************************)
\* results.multiHandLandmarks && results.multiHandLandmarks.length > 0
HasHand(results) ==
    /\ "multiHandLandmarks" \in DOMAIN results
    /\ Len(results.multiHandLandmarks) > 0

\* results.multiHandedness && results.multiHandedness.length > 0
HasHandedness(results) ==
    /\ "multiHandedness" \in DOMAIN results
    /\ Len(results.multiHandedness) > 0

\* HandPresent falling back to the default label when the frame carries no
\* handedness entry
HandPresent_DefaultHandedness(results) ==
    /\ _isHandDetected' = TRUE
    /\ _landmarks' = results.multiHandLandmarks[1]
    /\ _handedness' = IF HasHandedness(results)
                      THEN results.multiHandedness[1].label
                      ELSE "Right"
    /\ _targetHandOpenness' = OpennessOf[_landmarks']
    /\ _targetHandRotation' = RotationOf[THREE, _landmarks']
    /\ calls' = IF _onHandUpdate # Null
                THEN << [kind |-> "update", cb |-> _onHandUpdate,
                         openness |-> _handOpenness,
                         rotation |-> _handRotation,
                         landmarks |-> _landmarks'] >>
                ELSE << >>
    /\ UNCHANGED << _handOpenness, _smoothedOpenness, _handRotation,
                    _smoothedHandRotation, _showCameraFeed,
                    _onHandUpdate, _onHandLost, _previewCtx >>

\* HandPresent advancing the openness filter in the detector callback too
HandPresent_Smooths(results) ==
    /\ _isHandDetected' = TRUE
    /\ _landmarks' = results.multiHandLandmarks[1]
    /\ _handedness' = IF HasHandedness(results)
                      THEN results.multiHandedness[1].label
                      ELSE _handedness
    /\ _targetHandOpenness' = OpennessOf[_landmarks']
    /\ _targetHandRotation' = RotationOf[THREE, _landmarks']
    /\ _smoothedOpenness' = _smoothedOpenness
            + RoundDiv((_targetHandOpenness' - _smoothedOpenness) * SMOOTHING_NUM,
                       SMOOTHING_DEN)
    /\ _handOpenness' = _smoothedOpenness'
    /\ calls' = IF _onHandUpdate # Null
                THEN << [kind |-> "update", cb |-> _onHandUpdate,
                         openness |-> _handOpenness',
                         rotation |-> _handRotation,
                         landmarks |-> _landmarks'] >>
                ELSE << >>
    /\ UNCHANGED << _handRotation, _smoothedHandRotation, _showCameraFeed,
                    _onHandUpdate, _onHandLost, _previewCtx >>

\* HandPresent storing the last landmark set of the frame instead of the
\* first
HandPresent_LastHand(results) ==
    /\ _isHandDetected' = TRUE
    /\ _landmarks' = results.multiHandLandmarks[Len(results.multiHandLandmarks)]
    /\ _handedness' = IF HasHandedness(results)
                      THEN results.multiHandedness[1].label
                      ELSE _handedness
    \* calculateHandOpenness(_landmarks), calculateHandRotation(_landmarks)
    /\ _targetHandOpenness' = OpennessOf[_landmarks']
    /\ _targetHandRotation' = RotationOf[THREE, _landmarks']
    /\ calls' = IF _onHandUpdate # Null
                THEN << [kind |-> "update", cb |-> _onHandUpdate,
                         openness |-> _handOpenness,
                         rotation |-> _handRotation,
                         landmarks |-> _landmarks'] >>
                ELSE << >>
    /\ UNCHANGED << _handOpenness, _smoothedOpenness, _handRotation,
                    _smoothedHandRotation, _showCameraFeed,
                    _onHandUpdate, _onHandLost, _previewCtx >>

\* HandPresent passing the freshly computed targets to the callback
HandPresent_PayloadTargets(results) ==
    /\ _isHandDetected' = TRUE
    /\ _landmarks' = results.multiHandLandmarks[1]
    /\ _handedness' = IF HasHandedness(results)
                      THEN results.multiHandedness[1].label
                      ELSE _handedness
    /\ _targetHandOpenness' = OpennessOf[_landmarks']
    /\ _targetHandRotation' = RotationOf[THREE, _landmarks']
    /\ calls' = IF _onHandUpdate # Null
                THEN << [kind |-> "update", cb |-> _onHandUpdate,
                         openness |-> _targetHandOpenness',
                         rotation |-> _targetHandRotation',
                         landmarks |-> _landmarks'] >>
                ELSE << >>
    /\ UNCHANGED << _handOpenness, _smoothedOpenness, _handRotation,
                    _smoothedHandRotation, _showCameraFeed,
                    _onHandUpdate, _onHandLost, _previewCtx >>

\* the branch taken when a hand is present
HandPresent(results) ==
    /\ _isHandDetected' = TRUE
    /\ _landmarks' = results.multiHandLandmarks[1]
    /\ _handedness' = IF HasHandedness(results)
                      THEN results.multiHandedness[1].label
                      ELSE _handedness
    \* calculateHandOpenness(_landmarks), calculateHandRotation(_landmarks)
    /\ _targetHandOpenness' = OpennessOf[_landmarks']
    /\ _targetHandRotation' = RotationOf[THREE, _landmarks']
    /\ calls' = IF _onHandUpdate # Null
                THEN << [kind |-> "update", cb |-> _onHandUpdate,
                         openness |-> _handOpenness,
                         rotation |-> _handRotation,
                         landmarks |-> _landmarks'] >>
                ELSE << >>
    /\ UNCHANGED << _handOpenness, _smoothedOpenness, _handRotation,
                    _smoothedHandRotation, _showCameraFeed,
                    _onHandUpdate, _onHandLost, _previewCtx >>

\* HandAbsent without the reset of the target openness
HandAbsent_StaleTarget ==
    /\ _isHandDetected' = FALSE
    /\ _landmarks' = Null
    /\ calls' = IF _onHandLost # Null
                THEN << [kind |-> "lost", cb |-> _onHandLost] >>
                ELSE << >>
    /\ UNCHANGED << _targetHandOpenness, _handedness, _targetHandRotation,
                    _handOpenness, _smoothedOpenness, _handRotation,
                    _smoothedHandRotation, _showCameraFeed,
                    _onHandUpdate, _onHandLost, _previewCtx >>

\* HandAbsent notifying only on the frame that loses the hand
HandAbsent_Debounced ==
    /\ _isHandDetected' = FALSE
    /\ _landmarks' = Null
    /\ _targetHandOpenness' = 0
    /\ calls' = IF _onHandLost # Null /\ _isHandDetected
                THEN << [kind |-> "lost", cb |-> _onHandLost] >>
                ELSE << >>
    /\ UNCHANGED << _handedness, _targetHandRotation,
                    _handOpenness, _smoothedOpenness, _handRotation,
                    _smoothedHandRotation, _showCameraFeed,
                    _onHandUpdate, _onHandLost, _previewCtx >>

\* HandAbsent dropping the target orientation along with the landmarks
HandAbsent_ClearsRotation ==
    /\ _isHandDetected' = FALSE
    /\ _landmarks' = Null
    /\ _targetHandOpenness' = 0
    /\ _targetHandRotation' = Null
    /\ calls' = IF _onHandLost # Null
                THEN << [kind |-> "lost", cb |-> _onHandLost] >>
                ELSE << >>
    /\ UNCHANGED << _handedness,
                    _handOpenness, _smoothedOpenness, _handRotation,
                    _smoothedHandRotation, _showCameraFeed,
                    _onHandUpdate, _onHandLost, _previewCtx >>

\* the branch taken when no hand is present
HandAbsent ==
    /\ _isHandDetected' = FALSE
    /\ _landmarks' = Null
    /\ _targetHandOpenness' = 0
    /\ calls' = IF _onHandLost # Null
                THEN << [kind |-> "lost", cb |-> _onHandLost] >>
                ELSE << >>
    /\ UNCHANGED << _handedness, _targetHandRotation,
                    _handOpenness, _smoothedOpenness, _handRotation,
                    _smoothedHandRotation, _showCameraFeed,
                    _onHandUpdate, _onHandLost, _previewCtx >>

Invoked(kind, cs) == Cardinality({ i \in DOMAIN cs : cs[i].kind = kind })

onHandResults(results) ==
    /\ detector
    /\ _previewCtx # Null
    /\ IF HasHand(results) THEN HandPresent(results) ELSE HandAbsent
    /\ lastOp' = IF HasHand(results) THEN "hand" ELSE "nohand"
    /\ prevDetected' = _isHandDetected
    /\ reported' = IF HasHand(results) /\ HasHandedness(results)
                   THEN results.multiHandedness[1].label
                   ELSE reported
    /\ absentRun' = IF HasHand(results) THEN 0
                    ELSE IF _onHandLost = Null THEN absentRun
                    ELSE MathMin(absentRun + 1, MaxLostRun)
    /\ lostRun' = IF HasHand(results) THEN 0
                  ELSE MathMin(lostRun + Invoked("lost", calls'), MaxLostRun)
    /\ frameTarget' = IF HasHand(results)
                      THEN OpennessOf[results.multiHandLandmarks[1]]
                      ELSE 0
    /\ framesSince' = IF lastOp = "update" THEN 1
                      ELSE MathMin(framesSince + 1, 2)
    /\ overwritten' = IF lastOp = "update" \/ framesSince = 0 THEN FALSE
                      ELSE (overwritten \/ frameTarget' # frameTarget)
    /\ UNCHANGED << THREE, detector, tickOpenness, registered >>
    /\ UNCHANGED appVars

(***************************************************************************)
(* updateHandTracking: one render-loop tick.                               *)
(***************************************************************************)
\* the filter dividing by the smoothing factor instead of multiplying
SmoothOpenness_Divide(smoothed, target) ==
    smoothed + RoundDiv((target - smoothed) * SMOOTHING_DEN, SMOOTHING_NUM)

\* the filter with the smoothing factor a decimal place too small (0.012)
SmoothOpenness_Slow(smoothed, target) ==
    smoothed + RoundDiv((target - smoothed) * SMOOTHING_NUM, 10 * SMOOTHING_DEN)

\* smoothed + (target - smoothed) * SMOOTHING
SmoothOpenness(smoothed, target) ==
    smoothed + RoundDiv((target - smoothed) * SMOOTHING_NUM, SMOOTHING_DEN)

\* the guard without its test of the detection flag
RotationGuard_NoDetect ==
    /\ _targetHandRotation # Null
    /\ _smoothedHandRotation # Null

\* if (_isHandDetected && _targetHandRotation && _smoothedHandRotation)
RotationGuard ==
    /\ _isHandDetected
    /\ _targetHandRotation # Null
    /\ _smoothedHandRotation # Null

SmoothRotation ==
    IF RotationGuard
    THEN /\ _smoothedHandRotation' = slerp(_smoothedHandRotation, _targetHandRotation)
         /\ _handRotation' = _smoothedHandRotation'
    ELSE UNCHANGED << _smoothedHandRotation, _handRotation >>

\* updateHandTracking notifying the "hand updated" callback after smoothing
updateHandTracking_Notifies ==
    /\ _smoothedOpenness' = SmoothOpenness(_smoothedOpenness, _targetHandOpenness)
    /\ _handOpenness' = _smoothedOpenness'
    /\ SmoothRotation
    /\ calls' = IF _isHandDetected /\ _onHandUpdate # Null
                THEN << [kind |-> "update", cb |-> _onHandUpdate,
                         openness |-> _handOpenness',
                         rotation |-> _handRotation',
                         landmarks |-> _landmarks] >>
                ELSE << >>
    /\ lastOp' = "update"
    /\ tickOpenness' = _smoothedOpenness'
    /\ UNCHANGED << _targetHandOpenness, _isHandDetected, _handedness,
                    _targetHandRotation, _landmarks, _showCameraFeed,
                    _onHandUpdate, _onHandLost, _previewCtx, THREE, detector,
                    prevDetected, reported, absentRun, lostRun,
                    frameTarget, framesSince, overwritten, registered >>
    /\ UNCHANGED appVars

updateHandTracking ==
    /\ _smoothedOpenness' = SmoothOpenness(_smoothedOpenness, _targetHandOpenness)
    /\ _handOpenness' = _smoothedOpenness'
    /\ SmoothRotation
    /\ calls' = << >>
    /\ lastOp' = "update"
    /\ tickOpenness' = _smoothedOpenness'
    /\ UNCHANGED << _targetHandOpenness, _isHandDetected, _handedness,
                    _targetHandRotation, _landmarks, _showCameraFeed,
                    _onHandUpdate, _onHandLost, _previewCtx, THREE, detector,
                    prevDetected, reported, absentRun, lostRun,
                    frameTarget, framesSince, overwritten, registered >>
    /\ UNCHANGED appVars

(***************************************************************************)
(* Callback registration and the camera-feed toggle.                       *)
(***************************************************************************)
\* setOnHandUpdate keeping a callback that is already registered
setOnHandUpdate_FirstWins(callback) ==
    /\ _onHandUpdate' = IF _onHandUpdate = Null THEN callback ELSE _onHandUpdate
    /\ calls' = << >>
    /\ lastOp' = "other"
    /\ registered' = [registered EXCEPT
           !.update = callback,
           !.replaced = (IF registered.update \notin { Null, callback }
                         THEN @ \cup { registered.update } ELSE @) \ { callback }]
    /\ UNCHANGED << _handOpenness, _targetHandOpenness, _smoothedOpenness,
                    _isHandDetected, _handedness, _handRotation,
                    _targetHandRotation, _smoothedHandRotation, _landmarks,
                    _showCameraFeed, _onHandLost, _previewCtx, THREE, detector,
                    prevDetected, reported, absentRun, lostRun,
                    tickOpenness, frameTarget, framesSince, overwritten >>
    /\ UNCHANGED appVars

setOnHandUpdate(callback) ==
    /\ _onHandUpdate' = callback
    /\ calls' = << >>
    /\ lastOp' = "other"
    /\ registered' = [registered EXCEPT
           !.update = callback,
           !.replaced = (IF registered.update \notin { Null, callback }
                         THEN @ \cup { registered.update } ELSE @) \ { callback }]
    /\ UNCHANGED << _handOpenness, _targetHandOpenness, _smoothedOpenness,
                    _isHandDetected, _handedness, _handRotation,
                    _targetHandRotation, _smoothedHandRotation, _landmarks,
                    _showCameraFeed, _onHandLost, _previewCtx, THREE, detector,
                    prevDetected, reported, absentRun, lostRun,
                    tickOpenness, frameTarget, framesSince, overwritten >>
    /\ UNCHANGED appVars

setOnHandLost(callback) ==
    /\ _onHandLost' = callback
    /\ calls' = << >>
    /\ lastOp' = "other"
    /\ registered' = [registered EXCEPT
           !.lost = callback,
           !.replaced = (IF registered.lost \notin { Null, callback }
                         THEN @ \cup { registered.lost } ELSE @) \ { callback }]
    /\ UNCHANGED << _handOpenness, _targetHandOpenness, _smoothedOpenness,
                    _isHandDetected, _handedness, _handRotation,
                    _targetHandRotation, _smoothedHandRotation, _landmarks,
                    _showCameraFeed, _onHandUpdate, _previewCtx, THREE, detector,
                    prevDetected, reported, absentRun, lostRun,
                    tickOpenness, frameTarget, framesSince, overwritten >>
    /\ UNCHANGED appVars

toggleCameraFeed ==
    /\ _showCameraFeed' = ~_showCameraFeed
    /\ calls' = << >>
    /\ lastOp' = "other"
    /\ UNCHANGED << _handOpenness, _targetHandOpenness, _smoothedOpenness,
                    _isHandDetected, _handedness, _handRotation,
                    _targetHandRotation, _smoothedHandRotation, _landmarks,
                    _onHandUpdate, _onHandLost, _previewCtx, THREE, detector,
                    prevDetected, reported, absentRun, lostRun,
                    tickOpenness, frameTarget, framesSince, overwritten,
                    registered >>
    /\ UNCHANGED appVars

(***************************************************************************)
(* Accessors.                                                              *)
(***************************************************************************)
getOpenness == _handOpenness
getTargetOpenness == _targetHandOpenness
getRotation == _handRotation
isDetected == _isHandDetected
getLandmarks == _landmarks
getHandedness == _handedness
getShowCameraFeed == _showCameraFeed

(***************************************************************************)
(* The menu application (main.js) and the demos attached to the module.    *)
(* A demo's init builds its scene and runs animate() once; animate         *)
(* schedules the next animation frame, reads the accessors and calls       *)
(* HandTracking.update(); destroy cancels the scheduled frame and releases *)
(* the scene.                                                              *)
(***************************************************************************)
\* currentDemo = Demo; Demo.init(canvasContainer), as far as the scheduled
\* loop goes
DemoInit(Demo) ==
    /\ currentDemo' = Demo
    /\ animationId' = Demo
    /\ live' = [live EXCEPT ![Demo] = @ + 1]
    /\ timers' = [i \in DOMAIN timers |-> TRUE]

\* currentDemo.destroy(): cancelAnimationFrame(animationId);
\* animationId = null
destroy ==
    /\ animationId' = Null
    /\ live' = [live EXCEPT ![currentDemo] = MathMax(@ - 1, 0)]

\* a card of the menu is clicked and nothing else happens before the launch
\* has run to its end: the whole of launchDemo, with HandTracking.init
\* resolving (granted) or rejecting
launchDemo(Demo, granted) ==
    /\ currentDemo = Null
    /\ UNCHANGED << pending, initStarted, initRejected, timerKilled,
                    chessVars, planeVars >>
    /\ IF handTrackingInitialized
       THEN /\ DemoInit(Demo)
            /\ _smoothedOpenness' = SmoothOpenness(_smoothedOpenness, _targetHandOpenness)
            /\ _handOpenness' = _smoothedOpenness'
            /\ SmoothRotation
            /\ calls' = << >>
            /\ lastOp' = "update"
            /\ tickOpenness' = _smoothedOpenness'
            /\ UNCHANGED << _targetHandOpenness, _isHandDetected, _handedness,
                            _targetHandRotation, _landmarks, _showCameraFeed,
                            _onHandUpdate, _onHandLost, _previewCtx, THREE,
                            detector, prevDetected, reported, absentRun,
                            lostRun, frameTarget, framesSince, overwritten,
                            registered, handTrackingInitialized >>
       ELSE IF granted
       THEN \* initializeHandTracking, then Demo.init
            /\ _previewCtx' = << "2d" >>
            /\ detector' = TRUE
            /\ handTrackingInitialized' = TRUE
            /\ _onHandUpdate' = UiUpdate
            /\ _onHandLost' = UiLost
            /\ registered' =
                   [update |-> UiUpdate, lost |-> UiLost,
                    replaced |-> (registered.replaced
                                    \cup ({ registered.update, registered.lost }
                                             \ { Null }))
                                 \ { UiUpdate, UiLost }]
            /\ DemoInit(Demo)
            \* initQuaternions; the slerp of the first animate() joins two
            \* identity rotations
            /\ _handRotation' = IF THREE THEN IdentityQuaternion ELSE _handRotation
            /\ _targetHandRotation' = IF THREE THEN IdentityQuaternion
                                               ELSE _targetHandRotation
            /\ _smoothedHandRotation' = IF THREE THEN IdentityQuaternion
                                                 ELSE _smoothedHandRotation
            /\ _smoothedOpenness' = SmoothOpenness(_smoothedOpenness, _targetHandOpenness)
            /\ _handOpenness' = _smoothedOpenness'
            /\ calls' = << >>
            /\ lastOp' = "update"
            /\ tickOpenness' = _smoothedOpenness'
            /\ UNCHANGED << _targetHandOpenness, _isHandDetected, _handedness,
                            _landmarks, _showCameraFeed, THREE,
                            prevDetected, reported, absentRun,
                            lostRun, frameTarget, framesSince, overwritten >>
       ELSE \* HandTracking.init rejects: the error is caught and the menu
            \* stays
            initHandTracking(FALSE)

\* returnToMenu resetting the shared tracking state when a demo detaches
returnToMenu_ResetsTracking ==
    /\ IF currentDemo # Null
       THEN /\ destroy
            /\ currentDemo' = Null
            /\ _isHandDetected' = FALSE
            /\ _landmarks' = Null
            /\ _targetHandOpenness' = 0
            /\ _smoothedOpenness' = 0
            /\ _handOpenness' = 0
            /\ _onHandUpdate' = Null
            /\ _onHandLost' = Null
       ELSE UNCHANGED << currentDemo, animationId, live,
                         _isHandDetected, _landmarks,
                         _targetHandOpenness, _smoothedOpenness, _handOpenness,
                         _onHandUpdate, _onHandLost >>
    /\ calls' = << >>
    /\ lastOp' = "other"
    /\ UNCHANGED << pending, timers, initStarted, initRejected, timerKilled,
                    chessVars, planeVars >>
    /\ UNCHANGED << _handedness, _handRotation, _targetHandRotation,
                    _smoothedHandRotation, _showCameraFeed, _previewCtx,
                    THREE, detector, handTrackingInitialized,
                    prevDetected, reported, absentRun, lostRun,
                    tickOpenness, frameTarget, framesSince, overwritten,
                    registered >>

\* the back button or the Escape key
returnToMenu ==
    /\ IF currentDemo # Null
       THEN /\ destroy
            /\ currentDemo' = Null
       ELSE UNCHANGED << currentDemo, animationId, live >>
    /\ calls' = << >>
    /\ lastOp' = "other"
    /\ UNCHANGED << pending, timers, initStarted, initRejected, timerKilled,
                    chessVars, planeVars >>
    /\ UNCHANGED << moduleVars, THREE, detector, handTrackingInitialized,
                    prevDetected, reported, absentRun, lostRun,
                    tickOpenness, frameTarget, framesSince, overwritten,
                    registered >>

\* one animation frame of the attached demo
animate ==
    /\ animationId # Null
    /\ updateHandTracking

(***************************************************************************)
(* launchDemo across its await.  A click on a card runs launchDemo up to   *)
(* await initializeHandTracking(), which has started HandTracking.init;    *)
(* the rest of launchDemo runs when that promise settles.  The menu stays  *)
(* on screen in between (it is hidden only after the await), so further    *)
(* clicks start further launches; each HandTracking.init settles on its    *)
(* own.                                                                    *)
(***************************************************************************)
Suspended == pending[CosmicPrismDemo] + pending[AirplaneDemo]

\* a card is clicked while hand tracking is not initialised: launchDemo up
\* to its await, HandTracking.init up to getUserMedia
launchDemoAwait(Demo) ==
    /\ currentDemo = Null
    /\ ~handTrackingInitialized
    /\ Suspended < MaxPending
    /\ initStarted < MaxInits
    /\ pending' = [pending EXCEPT ![Demo] = @ + 1]
    /\ initStarted' = initStarted + 1
    /\ _previewCtx' = << "2d" >>
    /\ initQuaternions
    /\ calls' = << >>
    /\ lastOp' = "other"
    /\ UNCHANGED << _handOpenness, _targetHandOpenness, _smoothedOpenness,
                    _isHandDetected, _handedness, _landmarks, _showCameraFeed,
                    _onHandUpdate, _onHandLost, THREE, detector,
                    prevDetected, reported, absentRun, lostRun,
                    tickOpenness, frameTarget, framesSince, overwritten,
                    registered, currentDemo, handTrackingInitialized,
                    animationId, timers, live, initRejected, timerKilled,
                    chessVars, planeVars >>

\* HandTracking.init of a suspended launch resolves: the detector runs,
\* initializeHandTracking sets its flag and registers the two callbacks,
\* and launchDemo makes Demo the current demo and initialises it
launchDemoResume(Demo) ==
    /\ pending[Demo] > 0
    /\ pending' = [pending EXCEPT ![Demo] = @ - 1]
    /\ detector' = TRUE
    /\ handTrackingInitialized' = TRUE
    /\ _onHandUpdate' = UiUpdate
    /\ _onHandLost' = UiLost
    /\ registered' =
           [update |-> UiUpdate, lost |-> UiLost,
            replaced |-> (registered.replaced
                            \cup ({ registered.update, registered.lost }
                                     \ { Null }))
                         \ { UiUpdate, UiLost }]
    /\ DemoInit(Demo)
    /\ _smoothedOpenness' = SmoothOpenness(_smoothedOpenness, _targetHandOpenness)
    /\ _handOpenness' = _smoothedOpenness'
    /\ SmoothRotation
    /\ calls' = << >>
    /\ lastOp' = "update"
    /\ tickOpenness' = _smoothedOpenness'
    /\ UNCHANGED << _targetHandOpenness, _targetHandRotation,
                    _isHandDetected, _handedness,
                    _landmarks, _showCameraFeed, _previewCtx, THREE,
                    prevDetected, reported, absentRun, lostRun,
                    frameTarget, framesSince, overwritten,
                    initStarted, initRejected, timerKilled,
                    chessVars, planeVars >>

\* HandTracking.init of a suspended launch rejects: the catch block of
\* launchDemo sets the 3 s timer
launchDemoCatch(Demo) ==
    /\ pending[Demo] > 0
    /\ pending' = [pending EXCEPT ![Demo] = @ - 1]
    /\ initRejected' = initRejected + 1
    /\ timers' = Append(timers, FALSE)
    /\ calls' = << >>
    /\ lastOp' = "other"
    /\ UNCHANGED << moduleVars, THREE, detector,
                    prevDetected, reported, absentRun, lostRun,
                    tickOpenness, frameTarget, framesSince, overwritten,
                    registered, currentDemo, handTrackingInitialized,
                    animationId, live, initStarted, timerKilled,
                    chessVars, planeVars >>

\* the oldest timer of a failed launch fires: returnToMenu
launchFailureTimeout ==
    /\ timers # << >>
    /\ timers' = Tail(timers)
    /\ timerKilled' = (timerKilled \/ (Head(timers) /\ currentDemo # Null))
    /\ IF currentDemo # Null
       THEN /\ destroy
            /\ currentDemo' = Null
       ELSE UNCHANGED << currentDemo, animationId, live >>
    /\ calls' = << >>
    /\ lastOp' = "other"
    /\ UNCHANGED << moduleVars, THREE, detector, handTrackingInitialized,
                    prevDetected, reported, absentRun, lostRun,
                    tickOpenness, frameTarget, framesSince, overwritten,
                    registered, pending, initStarted, initRejected,
                    chessVars, planeVars >>

(***************************************************************************)
(* HandTracking.update() as a demo's animate() calls it, and the steps of  *)
(* a demo that leave the tracking module alone.                            *)
(***************************************************************************)
HandTrackingUpdate ==
    /\ _smoothedOpenness' = SmoothOpenness(_smoothedOpenness, _targetHandOpenness)
    /\ _handOpenness' = _smoothedOpenness'
    /\ SmoothRotation
    /\ calls' = << >>
    /\ lastOp' = "update"
    /\ tickOpenness' = _smoothedOpenness'
    /\ UNCHANGED << _targetHandOpenness, _isHandDetected, _handedness,
                    _targetHandRotation, _landmarks, _showCameraFeed,
                    _onHandUpdate, _onHandLost, _previewCtx, THREE, detector,
                    prevDetected, reported, absentRun, lostRun,
                    frameTarget, framesSince, overwritten, registered >>

ModuleIdle ==
    /\ calls' = << >>
    /\ lastOp' = "other"
    /\ UNCHANGED << moduleVars, THREE, detector,
                    prevDetected, reported, absentRun, lostRun,
                    tickOpenness, frameTarget, framesSince, overwritten,
                    registered >>

(***************************************************************************)
(* The chess demo (chess.js).  The rule engine is a library: the model     *)
(* keeps the side to move, the number of moves made and whether the game   *)
(* is over, and takes the engine's answers for the square under the hand   *)
(* (is there a white piece on it, is the move to it legal) as inputs of    *)
(* the animation frame, the square being where the wrist is over the       *)
(* board.                                                                  *)
(***************************************************************************)
\* new Chess()
NewGame == [turn |-> "w", ply |-> 0, over |-> FALSE]

\* chess.move(move) of a legal move: the other side is to move; the game
\* is over after MaxPly moves
Move(game) ==
    [turn |-> IF game.turn = "w" THEN "b" ELSE "w",
     ply |-> game.ply + 1,
     over |-> (game.ply + 1 >= MaxPly)]

isGameOver == chess.over

\* the square under the hand (null off the board), whether pieces[square]
\* is a white piece and whether chess.move from the selected square to it
\* succeeds
Hovers ==
    { [square |-> Null, white |-> FALSE, legal |-> FALSE],
      [square |-> << "e2" >>, white |-> TRUE, legal |-> FALSE],
      [square |-> << "e4" >>, white |-> FALSE, legal |-> TRUE],
      [square |-> << "e5" >>, white |-> FALSE, legal |-> FALSE] }

\* const isGrabbing = openness < 0.45
isGrabbing(openness) == openness * GRAB_DEN < GRAB_NUM * OScale

\* handModel.visible as updateHandModel sets it
updateHandModel == handModelVisible' = (isDetected /\ getLandmarks # Null)

grabPiece(square) ==
    /\ grabbedPiece' = square
    /\ selectedSquare' = square
    /\ originalPiecePosition' = square

\* dropPiece leaving the piece where the hand released it after a move
\* that was not made
dropPiece_LeavesPiece(hover) ==
    IF grabbedPiece = Null \/ selectedSquare = Null
    THEN UNCHANGED << chess, startTimers, meshPosition, grabbedPiece,
                         selectedSquare, originalPiecePosition >>
    ELSE /\ IF hover.square # Null /\ hover.legal /\ ~isGameOver
            THEN /\ chess' = Move(chess)
                 /\ startTimers' = IF ~chess'.over /\ chess'.turn = "b"
                                   THEN startTimers + 1 ELSE startTimers
                 /\ meshPosition' = hover.square
            ELSE /\ UNCHANGED << chess, startTimers, meshPosition >>
         /\ grabbedPiece' = Null
         /\ selectedSquare' = Null
         /\ originalPiecePosition' = Null

\* dropPiece(targetSquare): the move is tried only on a square of the
\* board; the AI is scheduled after a move that leaves Black to move in a
\* game that is not over; after no move the piece is put back
dropPiece(hover) ==
    IF grabbedPiece = Null \/ selectedSquare = Null
    THEN UNCHANGED << chess, startTimers, meshPosition, grabbedPiece,
                         selectedSquare, originalPiecePosition >>
    ELSE /\ IF hover.square # Null /\ hover.legal /\ ~isGameOver
            THEN /\ chess' = Move(chess)
                 /\ startTimers' = IF ~chess'.over /\ chess'.turn = "b"
                                   THEN startTimers + 1 ELSE startTimers
                 \* updatePiecePositions rebuilds every mesh on its square
                 /\ meshPosition' = hover.square
            ELSE /\ UNCHANGED << chess, startTimers >>
                 /\ meshPosition' = originalPiecePosition
         /\ grabbedPiece' = Null
         /\ selectedSquare' = Null
         /\ originalPiecePosition' = Null

\* the grabbed piece follows the hand
FollowHand ==
    meshPosition' = IF grabbedPiece # Null THEN << "hand" >> ELSE meshPosition

\* handleInteraction releasing the grabbed piece where it is when the hand
\* is lost
handleInteraction_ReleasesOnLost(hover) ==
    IF getLandmarks = Null \/ ~handModelVisible'
    THEN IF grabbedPiece # Null
         THEN /\ dropPiece([square |-> Null, white |-> FALSE, legal |-> FALSE])
              /\ lastGrabState' = FALSE
         ELSE UNCHANGED << chess, startTimers, meshPosition, grabbedPiece,
                              selectedSquare, originalPiecePosition,
                              lastGrabState >>
    ELSE /\ lastGrabState' = isGrabbing(getOpenness')
         /\ IF isGrabbing(getOpenness') /\ ~lastGrabState
            THEN IF hover.square # Null /\ hover.white
                 THEN /\ grabPiece(hover.square)
                      /\ meshPosition' = << "hand" >>
                      /\ UNCHANGED << chess, startTimers >>
                 ELSE /\ FollowHand
                      /\ UNCHANGED << chess, startTimers, grabbedPiece,
                                      selectedSquare, originalPiecePosition >>
            ELSE IF ~isGrabbing(getOpenness') /\ lastGrabState /\ grabbedPiece # Null
                 THEN dropPiece(hover)
                 ELSE /\ FollowHand
                      /\ UNCHANGED << chess, startTimers, grabbedPiece,
                                      selectedSquare, originalPiecePosition >>

\* handleInteraction, called after HandTracking.update() and
\* updateHandModel in the same animation frame
handleInteraction(hover) ==
    IF getLandmarks = Null \/ ~handModelVisible'
    THEN \* return: nothing is dropped when the hand is lost
         /\ UNCHANGED << chess, startTimers, meshPosition, grabbedPiece,
                         selectedSquare, originalPiecePosition,
                         lastGrabState >>
    ELSE /\ lastGrabState' = isGrabbing(getOpenness')
         /\ IF isGrabbing(getOpenness') /\ ~lastGrabState
            THEN \* just started grabbing
                 IF hover.square # Null /\ hover.white
                 THEN /\ grabPiece(hover.square)
                      /\ meshPosition' = << "hand" >>
                      /\ UNCHANGED << chess, startTimers >>
                 ELSE /\ FollowHand
                      /\ UNCHANGED << chess, startTimers, grabbedPiece,
                                      selectedSquare, originalPiecePosition >>
            ELSE IF ~isGrabbing(getOpenness') /\ lastGrabState /\ grabbedPiece # Null
                 THEN \* just released
                      dropPiece(hover)
                 ELSE /\ FollowHand
                      /\ UNCHANGED << chess, startTimers, grabbedPiece,
                                      selectedSquare, originalPiecePosition >>

otherAppVars == << currentDemo, handTrackingInitialized, animationId,
                   launchVars >>

\* ChessDemo.init: a new game and the first animate()
ChessInit ==
    /\ chess = Null
    /\ chess' = NewGame
    /\ HandTrackingUpdate
    /\ updateHandModel
    /\ UNCHANGED << gameStarted, isThinking, grabbedPiece, selectedSquare,
                    originalPiecePosition, lastGrabState, meshPosition,
                    startTimers, thinkTimers, aiMovedAs, ranOnNull >>
    /\ UNCHANGED << otherAppVars, planeVars >>

\* ChessDemo.destroy: the loop is cancelled, the timers are not
ChessDestroy ==
    /\ chess # Null
    /\ chess' = Null
    /\ gameStarted' = FALSE
    /\ grabbedPiece' = Null
    /\ ModuleIdle
    /\ UNCHANGED << isThinking, selectedSquare, originalPiecePosition,
                    lastGrabState, handModelVisible, meshPosition,
                    startTimers, thinkTimers, aiMovedAs, ranOnNull >>
    /\ UNCHANGED << otherAppVars, planeVars >>

\* the Start Game button of the difficulty panel
startGame ==
    /\ chess # Null
    /\ ~gameStarted
    /\ gameStarted' = TRUE
    /\ ModuleIdle
    /\ UNCHANGED << chess, isThinking, grabbedPiece, selectedSquare,
                    originalPiecePosition, lastGrabState, handModelVisible,
                    meshPosition, startTimers, thinkTimers, aiMovedAs,
                    ranOnNull >>
    /\ UNCHANGED << otherAppVars, planeVars >>

\* one animation frame of the chess demo; the player's drop that would
\* schedule the AI is taken while fewer than MaxAiTimers timers are pending
chessAnimate(hover) ==
    /\ chess # Null
    /\ hover.legal => startTimers + thinkTimers < MaxAiTimers
    /\ HandTrackingUpdate
    /\ updateHandModel
    /\ IF gameStarted /\ chess.turn = "w" /\ ~isThinking
       THEN handleInteraction(hover)
       ELSE UNCHANGED << chess, startTimers, meshPosition, grabbedPiece,
                            selectedSquare, originalPiecePosition,
                            lastGrabState >>
    /\ UNCHANGED << gameStarted, isThinking, thinkTimers, aiMovedAs,
                    ranOnNull >>
    /\ UNCHANGED << otherAppVars, planeVars >>

\* a setTimeout(makeAIMove, 300) timer fires: makeAIMove up to its own
\* setTimeout; isGameOver() throws when chess is null
makeAIMove ==
    /\ startTimers > 0
    /\ startTimers' = startTimers - 1
    /\ IF chess = Null
       THEN /\ ranOnNull' = TRUE
            /\ UNCHANGED << isThinking, thinkTimers >>
       ELSE IF isGameOver
       THEN UNCHANGED << isThinking, thinkTimers, ranOnNull >>
       ELSE /\ isThinking' = TRUE
            /\ thinkTimers' = thinkTimers + 1
            /\ UNCHANGED ranOnNull
    /\ ModuleIdle
    /\ UNCHANGED << chess, gameStarted, grabbedPiece, selectedSquare,
                    originalPiecePosition, lastGrabState, handModelVisible,
                    meshPosition, aiMovedAs >>
    /\ UNCHANGED << otherAppVars, planeVars >>

\* the thinking timer of makeAIMove fires: getBestMove throws when chess
\* is null, before isThinking is reset; otherwise the best move of the side
\* to move is made, if there is one
makeAIMoveTimeout ==
    /\ thinkTimers > 0
    /\ thinkTimers' = thinkTimers - 1
    /\ IF chess = Null
       THEN /\ ranOnNull' = TRUE
            /\ UNCHANGED << chess, isThinking, aiMovedAs >>
       ELSE /\ IF isGameOver
               THEN UNCHANGED << chess, aiMovedAs >>
               ELSE /\ chess' = Move(chess)
                    /\ aiMovedAs' = aiMovedAs \cup { chess.turn }
            /\ isThinking' = FALSE
            /\ UNCHANGED ranOnNull
    /\ ModuleIdle
    /\ UNCHANGED << gameStarted, grabbedPiece, selectedSquare,
                    originalPiecePosition, lastGrabState, handModelVisible,
                    meshPosition, startTimers >>
    /\ UNCHANGED << otherAppVars, planeVars >>

(***************************************************************************)
(* The airplane demo (airplane.js).  Angles are in 1/AScale radians.       *)
(***************************************************************************)
MathPI == RoundDiv(PI_NUM * AScale, PI_DEN)

\* Math.atan of n / d for 0 <= n <= d, d > 0: t / (1 + 0.28 t^2), within
\* 0.005 rad of the arc tangent
ArcTanUnit(n, d) == RoundDiv(AScale * n * d * 100, 100 * d * d + 28 * n * n)

\* Math.atan2(a, b)
MathAtan2(a, b) ==
    IF a = 0 /\ b = 0 THEN 0
    ELSE LET aa == Abs(a)
             bb == Abs(b)
             first == IF aa <= bb THEN ArcTanUnit(aa, bb)
                      ELSE MathPI \div 2 - ArcTanUnit(bb, aa)
             upper == IF b < 0 THEN MathPI - first ELSE first
         IN  IF a < 0 THEN -upper ELSE upper

\* Math.asin(s) of s in 1/QScale, clamped to [-1, 1]
MathAsin(s) ==
    LET c == MathMax(-QScale, MathMin(QScale, s))
    IN  MathAtan2(c, MathSqrt(QScale * QScale - c * c))

\* new THREE.Euler().setFromQuaternion(q, 'YXZ'): the x and z angles, from
\* the elements m23, m21 and m22 of the rotation matrix of q (in 1/QScale)
setFromQuaternion(q) ==
    LET m23 == RoundDiv(2 * (q.y * q.z - q.w * q.x), QScale)
        m21 == RoundDiv(2 * (q.x * q.y + q.w * q.z), QScale)
        m22 == QScale - RoundDiv(2 * (q.x * q.x + q.z * q.z), QScale)
    IN  [x |-> MathAsin(-m23),
         z |-> IF Abs(m23) < QScale THEN MathAtan2(m21, m22) ELSE 0]

\* THREE.MathUtils.clamp
clamp(value, min, max) == MathMax(min, MathMin(max, value))

maxRoll == MathPI \div 3
maxPitch == MathPI \div 4

\* new THREE.Vector3(0, 50, 0), new THREE.Euler(0, 0, 0), []
StartPosition == 0
LevelRotation == [x |-> 0, y |-> 0, z |-> 0]
EmptyTrail == 0

\* updateFlightControls(handRotation, isHandDetected); handRotation is the
\* quaternion object getRotation() returned, which update() has written to
\* in the meantime
updateFlightControls ==
    /\ IF isDetected /\ getRotation' # Null
       THEN LET euler == setFromQuaternion(getRotation')
            IN  /\ targetRoll' = clamp(RoundDiv(-euler.z * rollSensitivity, 10),
                                       -maxRoll, maxRoll)
                /\ targetPitch' = clamp(RoundDiv(euler.x * pitchSensitivity, 10),
                                        -maxPitch, maxPitch)
       ELSE /\ targetRoll' = RoundDiv(targetRoll * LEVEL_DECAY, 100)
            /\ targetPitch' = RoundDiv(targetPitch * LEVEL_DECAY, 100)
    /\ currentRoll' = currentRoll
            + RoundDiv((targetRoll' - currentRoll) * CONTROL_SMOOTHING, 100)
    /\ currentPitch' = currentPitch
            + RoundDiv((targetPitch' - currentPitch) * CONTROL_SMOOTHING, 100)

\* updateAirplane: the plane banks, turns and moves forward
updateAirplane ==
    /\ planeRotation' =
           [x |-> currentPitch',
            y |-> clamp(planeRotation.y - RoundDiv(currentRoll' * TURN_RATE, 100),
                        -MaxHeading, MaxHeading),
            z |-> currentRoll']
    /\ planePosition' = MathMin(planePosition + 1, MaxFlown)

\* updateTrail: trailPositions.unshift(airplane.position.clone())
updateTrail == trailPositions' = MathMin(trailPositions + 1, MaxFlown)

\* AirplaneDemo.destroy: the scene is released and the flight state reset
AirplaneDestroy ==
    /\ airplane
    /\ airplane' = FALSE
    /\ planePosition' = StartPosition
    /\ planeRotation' = LevelRotation
    /\ currentRoll' = 0
    /\ currentPitch' = 0
    /\ trailPositions' = EmptyTrail
    /\ ModuleIdle
    /\ UNCHANGED << targetRoll, targetPitch >>
    /\ UNCHANGED << otherAppVars, chessVars >>

\* AirplaneDemo.init: the scene is built and animate() runs once
AirplaneInit ==
    /\ ~airplane
    /\ airplane' = TRUE
    /\ HandTrackingUpdate
    /\ updateFlightControls
    /\ updateAirplane
    /\ updateTrail
    /\ UNCHANGED << otherAppVars, chessVars >>

\* one animation frame of the airplane demo
airplaneAnimate ==
    /\ airplane
    /\ HandTrackingUpdate
    /\ updateFlightControls
    /\ updateAirplane
    /\ updateTrail
    /\ UNCHANGED airplane
    /\ UNCHANGED << otherAppVars, chessVars >>

(***************************************************************************)
(* The hand tracking module under any interleaving of its operations.      *)
(***************************************************************************)
Next ==
    \/ \E granted \in BOOLEAN : initHandTracking(granted)
    \/ \E results \in Frames : onHandResults(results)
    \/ updateHandTracking
    \/ setOnHandUpdate(UiUpdate)
    \/ setOnHandLost(UiLost)
    \/ toggleCameraFeed

Spec == Init /\ [][Next]_vars

\* The render loop keeps running: every consumer calls update() from its
\* requestAnimationFrame loop, so a tick that would change the state is
\* eventually taken.
SpecLive == Init /\ [][Next]_vars /\ WF_vars(updateHandTracking)

(***************************************************************************)
(* The same module fed with hands of several orientations.                 *)
(***************************************************************************)
NextRotation ==
    \/ \E granted \in BOOLEAN : initHandTracking(granted)
    \/ \E results \in RotationFrames : onHandResults(results)
    \/ updateHandTracking

SpecRotation == Init /\ [][NextRotation]_vars

(***************************************************************************)
(* The same module fed with hands whose wrist and middle base knuckle      *)
(* coincide or nearly so, next to an ordinary half-open hand.              *)
(***************************************************************************)
DegenerateFrames ==
    { NoResults,
      Frame(<< HandHalf >>, << "Right" >>),
      Frame(<< HandDegenerate >>, << "Left" >>),
      Frame(<< HandTiny >>, << "Left" >>) }

NextDegenerate ==
    \/ \E granted \in BOOLEAN : initHandTracking(granted)
    \/ \E results \in DegenerateFrames : onHandResults(results)
    \/ updateHandTracking
    \/ setOnHandUpdate(UiUpdate)

SpecDegenerate == Init /\ [][NextDegenerate]_vars

(***************************************************************************)
(* The feature extraction alone: frames carrying one hand out of a family  *)
(* of shapes, extensions and sizes.                                        *)
(***************************************************************************)
NextGeometry ==
    \/ \E granted \in BOOLEAN : initHandTracking(granted)
    \/ \E h \in GeometryHands \cup { HandSkewed } :
           onHandResults(Frame(<< h >>, << >>))

SpecGeometry == Init /\ [][NextGeometry]_vars

(***************************************************************************)
(* The application: demos launched from the menu and left again while the  *)
(* detector keeps delivering frames.                                       *)
(***************************************************************************)
AppFrames ==
    { NoResults,
      Frame(<< HandHalf >>, << "Right" >>),
      Frame(<< HandRolled >>, << "Left" >>) }

NextApp ==
    \/ \E Demo \in demos, granted \in BOOLEAN : launchDemo(Demo, granted)
    \/ returnToMenu
    \/ animate
    \/ \E results \in AppFrames : onHandResults(results)

SpecApp == Init /\ [][NextApp]_vars

(***************************************************************************)
(* The menu with launches that overlap: cards clicked while earlier        *)
(* launches are suspended, each HandTracking.init resolving or rejecting   *)
(* on its own, the timers of the failed ones firing later.                 *)
(***************************************************************************)
NextLaunch ==
    \/ \E Demo \in demos : launchDemoAwait(Demo)
    \/ \E Demo \in demos : launchDemoResume(Demo)
    \/ \E Demo \in demos : launchDemoCatch(Demo)
    \/ launchFailureTimeout
    \/ \E Demo \in demos : handTrackingInitialized /\ launchDemo(Demo, TRUE)
    \/ returnToMenu

SpecLaunch == Init /\ [][NextLaunch]_vars

(***************************************************************************)
(* One game of the chess demo, played with open hands and fists while the  *)
(* detector delivers frames.                                               *)
(***************************************************************************)
ChessFrames ==
    { NoResults,
      Frame(<< HandOpen >>, << "Right" >>),
      Frame(<< HandFist >>, << "Right" >>) }

NextChess ==
    \/ initHandTracking(TRUE)
    \/ \E results \in ChessFrames : onHandResults(results)
    \/ ChessInit
    \/ startGame
    \/ \E hover \in Hovers : chessAnimate(hover)
    \/ makeAIMove
    \/ makeAIMoveTimeout

SpecChess == Init /\ [][NextChess]_vars

(***************************************************************************)
(* One game of the chess demo when every hand the detector sees is fully   *)
(* open.                                                                   *)
(***************************************************************************)
OpenFrames == { NoResults, Frame(<< HandOpen >>, << "Right" >>) }

NextChessOpen ==
    \/ initHandTracking(TRUE)
    \/ \E results \in OpenFrames : onHandResults(results)
    \/ ChessInit
    \/ startGame
    \/ \E hover \in Hovers : chessAnimate(hover)
    \/ makeAIMove
    \/ makeAIMoveTimeout

SpecChessOpen == Init /\ [][NextChessOpen]_vars

(***************************************************************************)
(* The chess demo left and entered again at any time, the hand always in   *)
(* view.                                                                   *)
(***************************************************************************)
RestartFrames ==
    { Frame(<< HandOpen >>, << "Right" >>),
      Frame(<< HandFist >>, << "Right" >>) }

NextChessRestart ==
    \/ initHandTracking(TRUE)
    \/ \E results \in RestartFrames : onHandResults(results)
    \/ ChessInit
    \/ ChessDestroy
    \/ startGame
    \/ \E hover \in Hovers : chessAnimate(hover)
    \/ makeAIMove
    \/ makeAIMoveTimeout

SpecChessRestart == Init /\ [][NextChessRestart]_vars

(***************************************************************************)
(* The airplane demo flown with a rolled hand, left and entered again.     *)
(***************************************************************************)
PlaneFrames == { NoResults, Frame(<< HandRolled >>, << "Left" >>) }

NextAirplane ==
    \/ initHandTracking(TRUE)
    \/ \E results \in PlaneFrames : onHandResults(results)
    \/ AirplaneInit
    \/ AirplaneDestroy
    \/ airplaneAnimate

SpecAirplane == Init /\ [][NextAirplane]_vars

(***************************************************************************)
(* The same module with two consumers registering callbacks in any order.  *)
(***************************************************************************)
CallbackFrames == { NoResults, Frame(<< HandFist >>, << "Right" >>) }

NextCallbacks ==
    \/ \E granted \in BOOLEAN : initHandTracking(granted)
    \/ \E results \in CallbackFrames : onHandResults(results)
    \/ updateHandTracking
    \/ \E callback \in { UiUpdate, OtherUpdate } : setOnHandUpdate(callback)
    \/ \E callback \in { UiLost, OtherLost } : setOnHandLost(callback)

SpecCallbacks == Init /\ [][NextCallbacks]_vars

(***************************************************************************)
(* Properties of the openness filter and of the detection state (Spec).    *)
(***************************************************************************)

\* C1: in every reachable state the smoothed openness returned by
\* getOpenness() lies in [0, 1], whatever frames and ticks were interleaved.
C1_OpennessInRange ==
    /\ 0 <= getOpenness /\ getOpenness <= OScale
    /\ 0 <= _smoothedOpenness /\ _smoothedOpenness <= OScale

\* a tick has moved the smoothed openness strictly inside (0, 1) while an
\* open hand is detected
C1_Witness ==
    /\ lastOp = "update"
    /\ _isHandDetected
    /\ getTargetOpenness = OScale
    /\ 0 < getOpenness /\ getOpenness < OScale

\* C2: whenever isDetected() is false, getTargetOpenness() is exactly 0.
C2_NoHandTargetZero ==
    ~isDetected => getTargetOpenness = 0

\* a frame without a hand has been processed after a hand had raised the
\* openness: the smoothed value is still positive, the target is not
C2_Witness ==
    /\ lastOp = "nohand"
    /\ prevDetected
    /\ ~isDetected
    /\ getOpenness > 0

\* C3: every processed frame without a hand sets isDetected() to false,
\* getLandmarks() to null and the target openness to 0, and invokes the
\* registered "hand lost" callback once during that frame.
C3_LostFrameEffects ==
    lastOp = "nohand" =>
        /\ ~isDetected
        /\ getLandmarks = Null
        /\ getTargetOpenness = 0
        /\ _onHandLost # Null =>
               calls = << [kind |-> "lost", cb |-> _onHandLost] >>

\* the callback has fired on a frame where detection went from true to false
C3_Witness ==
    /\ lastOp = "nohand"
    /\ prevDetected
    /\ ~isDetected
    /\ calls = << [kind |-> "lost", cb |-> UiLost] >>

\* C4 as stated: over a run of consecutive frames without a hand that
\* follows a frame with a hand (one has been reported), the "hand lost"
\* callback is invoked once, not once per absent frame.
C4_LostOncePerRun ==
    reported # "none" => lostRun <= 1

\* C4 as the code has it: the "hand lost" callback is invoked once per
\* frame without a hand, so n times over a run of n such frames processed
\* with a callback registered.
C4_LostOncePerFrame ==
    /\ lostRun = absentRun
    /\ (lastOp = "nohand" /\ _onHandLost # Null) => Invoked("lost", calls) = 1

\* a second consecutive frame without a hand has invoked the callback again
C4_Witness ==
    /\ lastOp = "nohand"
    /\ reported # "none"
    /\ ~prevDetected
    /\ absentRun = 2
    /\ lostRun = 2
    /\ Invoked("lost", calls) = 1

\* C5: handedness is sticky: it is the label of the last frame that carried
\* a hand and a handedness entry, and the default 'Right' only before any
\* such frame; frames without a hand or without a handedness entry leave it.
C5_HandednessSticky ==
    getHandedness = IF reported = "none" THEN "Right" ELSE reported

\* after 'Left' was reported, a hand has been detected by a frame that
\* carries no handedness entry, and 'Left' is still returned
C5_Witness ==
    /\ reported = "Left"
    /\ lastOp = "hand"
    /\ getLandmarks = HandHalf
    /\ getHandedness = "Left"

\* distance of the smoothed openness from its target
Gap == Abs(_targetHandOpenness - _smoothedOpenness)

\* the largest gap whose 0.12-fold rounds to no step at all
StallGap == (SMOOTHING_DEN - 1) \div (2 * SMOOTHING_NUM)

\* C6 as stated: every update() tick leaves |target - smoothed| no larger
\* than before, strictly smaller while it is nonzero, and never moves the
\* smoothed openness past the target.
C6_StrictlyCloser ==
    [][lastOp' = "update" =>
          /\ Gap' <= Gap
          /\ Gap > 0 => Gap' < Gap
          /\ (_targetHandOpenness - _smoothedOpenness)
               * (_targetHandOpenness' - _smoothedOpenness') >= 0]_vars

\* C6 as the code has it: every update() tick leaves |target - smoothed| no
\* larger than before and never moves the smoothed openness past the target;
\* the gap shrinks strictly while 0.12 of it is at least half a unit of the
\* arithmetic's resolution, and below that the tick changes nothing.
C6_CloserUntilStall ==
    [][lastOp' = "update" =>
          /\ Gap' <= Gap
          /\ Gap > StallGap => Gap' < Gap
          /\ Gap <= StallGap => _smoothedOpenness' = _smoothedOpenness
          /\ (_targetHandOpenness - _smoothedOpenness)
               * (_targetHandOpenness' - _smoothedOpenness') >= 0]_vars

\* a tick has just brought the smoothed openness down towards a half-open
\* hand's target, still above it
C6_Witness ==
    /\ lastOp = "update"
    /\ isDetected
    /\ getTargetOpenness = OpennessOf[HandHalf]
    /\ getOpenness > getTargetOpenness + StallGap
    /\ getOpenness < OScale - StallGap

\* the values the target openness takes
Targets == { 0 } \cup { OpennessOf[h] : h \in AllHands }

\* C7 as stated, for the smallest positive tolerance the arithmetic can
\* express: if the target stays constant from some point on and update()
\* keeps being called, the smoothed openness eventually stays within one
\* unit of the target.
C7_ConvergesWithinAnyTolerance ==
    \A t \in Targets :
        <>[](_targetHandOpenness = t) => <>[](Abs(t - getOpenness) <= 1)

\* C7 as the code has it: if the target stays constant from some point on
\* and update() keeps being called, the smoothed openness eventually stays
\* within the stall gap of the target (and so within any larger tolerance);
\* once the hand is lost for good, getOpenness() eventually stays at or
\* below the stall gap.
C7_ConvergesToStallGap ==
    /\ \A t \in Targets :
           <>[](_targetHandOpenness = t) => <>[](Abs(t - getOpenness) <= StallGap)
    /\ <>[](~isDetected) => <>[](getOpenness <= StallGap)

\* a tick taken after the hand was lost for a target of 0 has left the
\* smoothed openness exactly the stall gap above it
C7_Witness ==
    /\ lastOp = "update"
    /\ ~isDetected
    /\ getTargetOpenness = 0
    /\ getOpenness = StallGap

\* C8: whatever frames were processed since the previous update() tick, a
\* tick leaves the smoothed openness at s + (t - s) * 0.12, where s is what
\* the previous tick left and t is the target computed by the most recent
\* frame (the unchanged target if no frame arrived); targets of earlier
\* frames of the interval have no effect.
C8_TickUsesLatestTarget ==
    [][lastOp' = "update" =>
          /\ _smoothedOpenness' = SmoothOpenness(tickOpenness, frameTarget)
          /\ getOpenness' = _smoothedOpenness']_vars

\* a tick has run after several frames, one of which replaced the target of
\* an earlier one, and has moved the smoothed openness
C8_Witness ==
    /\ lastOp = "update"
    /\ framesSince = 2
    /\ overwritten
    /\ getOpenness > StallGap
    /\ getOpenness = tickOpenness

(***************************************************************************)
(* Properties of the orientation filter (SpecRotation).                    *)
(***************************************************************************)
\* how close orientation p is to the target q: cos^2 of half the angle
\* between them times |q|^2, in 1/10 (p is divided by its own length, which
\* rounding leaves near QScale)
Closeness(p, q) ==
    IF DotQ(p, p) = 0 THEN 0
    ELSE (DotQ(p, q) * DotQ(p, q) * 10) \div DotQ(p, p)

\* C9: an update() tick taken while no hand is detected, or while there is
\* no target orientation, leaves the orientation returned by getRotation()
\* (and the smoothed orientation behind it) as it was; a tick taken while a
\* hand is detected and a target orientation exists sets it to the slerp of
\* the smoothed orientation towards the target by 0.12 * 1.5, which is never
\* farther from the target.
C9_RotationHeldWithoutHand ==
    [][lastOp' = "update" =>
          IF _isHandDetected /\ _targetHandRotation # Null
          THEN /\ getRotation' = slerp(_smoothedHandRotation, _targetHandRotation)
               /\ _smoothedHandRotation' = getRotation'
               /\ Closeness(getRotation', _targetHandRotation)
                     >= Closeness(_smoothedHandRotation, _targetHandRotation)
          ELSE /\ getRotation' = getRotation
               /\ _smoothedHandRotation' = _smoothedHandRotation]_vars

\* a tick taken after the hand was lost has left a turned orientation, short
\* of the rolled hand's target, in place
C9_Witness ==
    /\ lastOp = "update"
    /\ ~isDetected
    /\ _targetHandRotation = RotationOf[TRUE, HandRolled]
    /\ getRotation \notin { Null, IdentityQuaternion, _targetHandRotation }

\* C10 as stated: whenever no hand is detected the module holds no target
\* orientation.
C10_NoTargetWithoutHand ==
    ~isDetected => _targetHandRotation = Null

\* C10 as the code has it: the target orientation is null exactly before
\* initialisation or when the 3-D library is missing; initialisation binds
\* it to the identity, a frame with a hand replaces it with that frame's
\* estimate, and a frame without a hand leaves it as it was.
C10_TargetRotationKept ==
    /\ []((_targetHandRotation = Null) <=> (~THREE \/ _previewCtx = Null))
    /\ [][lastOp' = "hand" =>
             _targetHandRotation' = RotationOf[THREE, getLandmarks']]_vars
    /\ [][lastOp' = "nohand" =>
             _targetHandRotation' = _targetHandRotation]_vars
    /\ []((~isDetected /\ reported = "none" /\ THREE /\ _previewCtx # Null)
             => _targetHandRotation = IdentityQuaternion)

\* a frame without a hand has been processed and the rolled hand's estimate
\* is still the target orientation
C10_Witness ==
    /\ lastOp = "nohand"
    /\ ~isDetected
    /\ getLandmarks = Null
    /\ _targetHandRotation = RotationOf[TRUE, HandRolled]

(***************************************************************************)
(* Properties of the exposed orientation under degenerate geometry         *)
(* (SpecDegenerate).                                                       *)
(***************************************************************************)
\* q is a rotation of unit norm: |q|^2 is within 1/NormTolerance of 1, which
\* is what the rounding of the components and of the slerp ratios can add up
\* to at this resolution
NormTolerance == 20

UnitNorm(q) ==
    /\ q # Null
    /\ Abs(DotQ(q, q) - QScale * QScale) * NormTolerance <= QScale * QScale

\* C11 as stated, from initHandTracking with the 3-D library loaded on: the
\* orientation returned by getRotation() is never null and has unit norm
\* after any sequence of detector frames and update() ticks.
C11_RotationUnitNorm ==
    (THREE /\ _previewCtx # Null) => UnitNorm(getRotation)

(***************************************************************************)
(* Properties of the callback slots (SpecCallbacks, Spec).                 *)
(***************************************************************************)
\* C12: each slot holds the argument of the last call of its setter, so a
\* call of the other setter leaves it alone; every callback a frame invokes
\* is the one registered last for its kind, never one that a later
\* registration replaced, and a frame with a hand invokes the registered
\* "hand updated" callback, a frame without the registered "hand lost" one.
C12_LastRegistrationWins ==
    /\ _onHandUpdate = registered.update
    /\ _onHandLost = registered.lost
    /\ \A i \in DOMAIN calls :
           /\ calls[i].cb = registered[calls[i].kind]
           /\ calls[i].cb \notin registered.replaced
    /\ (lastOp = "hand" /\ registered.update # Null) => Invoked("update", calls) = 1
    /\ (lastOp = "nohand" /\ registered.lost # Null) => Invoked("lost", calls) = 1

\* a frame with a hand has invoked the second consumer's callback after it
\* replaced the one main.js had registered, the "hand lost" slot still
\* holding the callback registered before
C12_Witness ==
    /\ lastOp = "hand"
    /\ calls # << >>
    /\ calls[1].cb = OtherUpdate
    /\ UiUpdate \in registered.replaced
    /\ _onHandLost = UiLost

\* C13: a frame with a hand invokes the "hand updated" callback exactly once
\* when one is registered and the "hand lost" callback never; a frame
\* without a hand never invokes "hand updated" and invokes "hand lost" once
\* when one is registered; so with both registered every frame invokes
\* exactly one callback.  update() ticks and the other operations invoke
\* none.
C13_OneCallbackPerFrame ==
    /\ lastOp = "hand" =>
           /\ Invoked("lost", calls) = 0
           /\ Invoked("update", calls) = IF _onHandUpdate # Null THEN 1 ELSE 0
    /\ lastOp = "nohand" =>
           /\ Invoked("update", calls) = 0
           /\ Invoked("lost", calls) = IF _onHandLost # Null THEN 1 ELSE 0
    /\ (lastOp \in { "hand", "nohand" } /\ _onHandUpdate # Null /\ _onHandLost # Null)
           => Len(calls) = 1
    /\ lastOp \in { "update", "other" } => calls = << >>

\* with both callbacks registered, a frame with a hand has invoked "hand
\* updated" alone, passing the openness the last tick left and the frame's
\* landmarks
C13_Witness ==
    /\ lastOp = "hand"
    /\ _onHandUpdate # Null
    /\ _onHandLost # Null
    /\ Len(calls) = 1
    /\ calls[1].kind = "update"
    /\ calls[1].openness = getOpenness
    /\ calls[1].openness > 0
    /\ calls[1].landmarks = getLandmarks

\* C14: in every state isDetected() is true exactly when getLandmarks() is
\* non-null; a processed frame leaves isDetected() true and the first
\* landmark set of the frame in getLandmarks() when the frame carries a
\* hand, false and null when it carries none; ticks and the other operations
\* change neither.
C14_DetectedIffLandmarks ==
    /\ [](isDetected <=> getLandmarks # Null)
    /\ [][\A results \in Frames :
             onHandResults(results) =>
                 /\ isDetected' = HasHand(results)
                 /\ getLandmarks' = IF HasHand(results)
                                    THEN results.multiHandLandmarks[1]
                                    ELSE Null]_vars
    /\ [][lastOp' \in { "update", "other" } =>
             UNCHANGED << _isHandDetected, _landmarks >>]_vars

\* the frame carrying an open hand followed by a fist has been processed:
\* the open hand is stored and its openness is the target
C14_Witness ==
    /\ lastOp = "hand"
    /\ reported = "Right"
    /\ isDetected
    /\ getLandmarks = HandOpen
    /\ getTargetOpenness = OScale

(***************************************************************************)
(* Properties of the feature extraction (SpecGeometry, SpecDegenerate).    *)
(***************************************************************************)
\* C15: for the landmark set of every processed frame whose wrist to middle
\* base knuckle distance is at least 0.001, the openness computed for it
\* lies in [0, 1]; it is 0 when the average finger ratio is at most 0.45,
\* 1 when it is at least 0.85, and in between the ratio mapped linearly
\* from [0.45, 0.85] onto [0, 1], to half a unit of the openness resolution.
C15_OpennessLinearClamped ==
    (isDetected /\ ~BelowEpsilon(getLandmarks)) =>
        LET a == AvgRatio(getLandmarks)
            t == getTargetOpenness
        IN  /\ 0 <= t /\ t <= OScale
            /\ a <= 10 * minRatio => t = 0
            /\ a >= 10 * maxRatio => t = OScale
            /\ (10 * minRatio < a /\ a < 10 * maxRatio) =>
                   2 * Abs(t * 10 * (maxRatio - minRatio)
                             - (a - 10 * minRatio) * OScale)
                       <= 10 * (maxRatio - minRatio)

\* a frame with a hand spread beyond the maximum ratio has been processed
\* and its openness is clamped to 1
C15_Witness ==
    /\ lastOp = "hand"
    /\ isDetected
    /\ ~BelowEpsilon(getLandmarks)
    /\ AvgRatio(getLandmarks) > 10 * maxRatio
    /\ getTargetOpenness = OScale

\* C16: a frame whose first landmark set has the wrist and the middle base
\* knuckle less than 0.001 apart is processed as a detected hand: its
\* landmarks are stored, isDetected() is true, the target openness is
\* exactly 0 (the reference length is never divided by), and the "hand
\* updated" callback, when registered, is invoked once.
C16_DegenerateHandDetected ==
    /\ (isDetected /\ BelowEpsilon(getLandmarks)) => getTargetOpenness = 0
    /\ (lastOp = "hand" /\ BelowEpsilon(getLandmarks)) =>
           /\ isDetected
           /\ Invoked("lost", calls) = 0
           /\ Invoked("update", calls) = IF _onHandUpdate # Null THEN 1 ELSE 0
           /\ \A i \in DOMAIN calls : calls[i].landmarks = getLandmarks

\* the frame whose wrist and middle base knuckle coincide has been processed
\* after a half-open hand had raised the openness: "hand updated" was invoked
\* and the target is 0
C16_Witness ==
    /\ lastOp = "hand"
    /\ getLandmarks = HandDegenerate
    /\ HandSize(getLandmarks) = 0
    /\ isDetected
    /\ getTargetOpenness = 0
    /\ getOpenness > 0
    /\ Invoked("update", calls) = 1

\* landmark set b is landmark set a scaled about the wrist, up or down
ScaledCopy(a, b) ==
    \E k \in Scales : b = ScaleHand(a, k) \/ a = ScaleHand(b, k)

\* C17 as stated: when a frame carries the previous frame's landmark set
\* scaled about the wrist by some k > 0, the openness computed for it is the
\* one computed for the previous frame, for every landmark set.
C17_ScaleInvariant ==
    [][(lastOp' = "hand" /\ isDetected /\ ScaledCopy(getLandmarks, getLandmarks'))
          => getTargetOpenness' = getTargetOpenness]_vars

\* C17 as the code has it: when a frame carries the previous frame's
\* landmark set scaled about the wrist by some k > 0 and the wrist to middle
\* base knuckle distance is at least 0.001 in both, the openness computed
\* for it is the one computed for the previous frame; a landmark set whose
\* reference is below 0.001 gets openness 0 whatever its scaled copies get.
C17_ScaleInvariantAboveEpsilon ==
    /\ [][(lastOp' = "hand" /\ isDetected
              /\ ScaledCopy(getLandmarks, getLandmarks')
              /\ ~BelowEpsilon(getLandmarks) /\ ~BelowEpsilon(getLandmarks'))
             => getTargetOpenness' = getTargetOpenness]_vars
    /\ []((isDetected /\ BelowEpsilon(getLandmarks)) => getTargetOpenness = 0)

\* a half-open leaning hand has been followed by its copy three times the
\* size, both above the 0.001 reference, and the target is still its
\* openness
C17_Witness ==
    /\ lastOp = "hand"
    /\ prevDetected
    /\ getLandmarks = ScaleHand(HandSkewed, 3)
    /\ ~BelowEpsilon(getLandmarks)
    /\ getTargetOpenness = OpennessOf[HandSkewed]
    /\ 0 < getTargetOpenness /\ getTargetOpenness < OScale

\* the input of calculateHandRotation is non-degenerate: the wrist and the
\* middle base knuckle differ, the index and pinky base knuckles differ, and
\* the two directions are not parallel
NonDegenerate(landmarks) ==
    LET up    == subVectors(Vector3(landmarks[9]), Vector3(landmarks[0]))
        right == subVectors(Vector3(landmarks[5]), Vector3(landmarks[17]))
    IN  /\ Dot3(up, up) > 0
        /\ Dot3(right, right) > 0
        /\ \E i \in 1..3 :
               crossVectors(normalize(right), normalize(up))[i] # 0

\* a and b are at a right angle, a has unit length: to 1/OrthoTolerance
OrthoTolerance == 100

UnitVector(a) ==
    Abs(Dot3(a, a) - VScale * VScale) * OrthoTolerance <= VScale * VScale

Orthogonal(a, b) ==
    Abs(Dot3(a, b)) * OrthoTolerance <= VScale * VScale

\* C18: for the landmark set of every processed frame with non-degenerate
\* wrist, index-base, pinky-base and middle-base points, the basis
\* calculateHandRotation builds is orthonormal: right, up and forward have
\* unit length and are pairwise at right angles, forward being
\* normalize(cross(right, up)) of the knuckle direction and right
\* normalize(cross(up, forward)); with the 3-D library the frame's target
\* orientation is the rotation of that basis.
C18_BasisOrthonormal ==
    (isDetected /\ NonDegenerate(getLandmarks)) =>
        LET b  == HandBasis(getLandmarks)
            up == normalize(subVectors(Vector3(getLandmarks[9]),
                                       Vector3(getLandmarks[0])))
            r0 == normalize(subVectors(Vector3(getLandmarks[5]),
                                       Vector3(getLandmarks[17])))
        IN  /\ UnitVector(b.right) /\ UnitVector(b.up) /\ UnitVector(b.forward)
            /\ Orthogonal(b.right, b.up)
            /\ Orthogonal(b.up, b.forward)
            /\ Orthogonal(b.forward, b.right)
            /\ b.up = up
            /\ b.forward = normalize(crossVectors(r0, up))
            /\ b.right = normalize(crossVectors(up, b.forward))
            /\ (THREE /\ lastOp = "hand") =>
                   _targetHandRotation = setFromBasis(b.right, b.up, b.forward)

\* a frame with a leaning, tilted hand whose knuckle line is not square to
\* the wrist-to-knuckle direction has been processed with the 3-D library
C18_Witness ==
    /\ lastOp = "hand"
    /\ THREE
    /\ getLandmarks = HandSkewed
    /\ NonDegenerate(getLandmarks)
    /\ ~Orthogonal(normalize(subVectors(Vector3(getLandmarks[5]),
                                        Vector3(getLandmarks[17]))),
                   HandBasis(getLandmarks).up)
    /\ _targetHandRotation = RotationOf[TRUE, HandSkewed]

(***************************************************************************)
(* Properties of the module without the 3-D library (Spec).                *)
(***************************************************************************)
\* C19: without the 3-D library the three orientations stay null, so
\* getRotation() returns null and update() never reaches the slerp or the
\* copy; every frame and every tick, with or without the library, sets the
\* detection state, the landmarks, the target openness and the smoothed
\* openness by rules in which the library does not occur.
C19_OpennessWithoutLibrary ==
    /\ [](~THREE => /\ getRotation = Null
                    /\ _targetHandRotation = Null
                    /\ _smoothedHandRotation = Null
                    /\ ~RotationGuard)
    /\ [](RotationGuard => getRotation # Null)
    /\ [][lastOp' = "update" =>
             /\ _smoothedOpenness' = SmoothOpenness(_smoothedOpenness, getTargetOpenness)
             /\ getOpenness' = _smoothedOpenness'
             /\ UNCHANGED << _targetHandOpenness, _isHandDetected, _landmarks >>]_vars
    /\ [][\A results \in Frames :
             onHandResults(results) =>
                 /\ isDetected' = HasHand(results)
                 /\ getTargetOpenness' = IF HasHand(results)
                                         THEN OpennessOf[results.multiHandLandmarks[1]]
                                         ELSE 0
                 /\ UNCHANGED << _smoothedOpenness, _handOpenness >>
                 /\ (~THREE /\ HasHand(results) /\ _onHandUpdate # Null) =>
                        calls'[1].rotation = Null]_vars

\* without the library, a tick has moved the smoothed openness towards the
\* target of a detected open hand while getRotation() is null
C19_Witness ==
    /\ ~THREE
    /\ lastOp = "update"
    /\ isDetected
    /\ getTargetOpenness = OScale
    /\ getOpenness > StallGap
    /\ getRotation = Null

(***************************************************************************)
(* Properties of the application (SpecApp).                                *)
(***************************************************************************)
\* C20: the step in which a demo detaches (returnToMenu destroying the
\* current demo) cancels the demo's loop and leaves every variable of the
\* tracking module unchanged: smoothed and target openness, the
\* orientations, detection state, landmarks, handedness and both callback
\* slots; and the step in which the next demo attaches to the initialised
\* module finds them as they were left, its first animation frame smoothing
\* on from the smoothed openness that was left.
C20_DetachKeepsTracking ==
    /\ [][(currentDemo # Null /\ currentDemo' = Null) =>
             /\ UNCHANGED moduleVars
             /\ animationId' = Null]_vars
    /\ [][(currentDemo = Null /\ currentDemo' # Null /\ handTrackingInitialized) =>
             /\ UNCHANGED << _targetHandOpenness, _targetHandRotation,
                             _isHandDetected, _landmarks, _handedness,
                             _onHandUpdate, _onHandLost >>
             /\ getOpenness' = SmoothOpenness(getOpenness, getTargetOpenness)]_vars

\* a demo has detached while a hand was detected: the menu is showing, no
\* loop is scheduled, and the module still holds the hand, a smoothed
\* openness above 0 and both callbacks
C20_Witness ==
    /\ lastOp = "other"
    /\ handTrackingInitialized
    /\ currentDemo = Null
    /\ animationId = Null
    /\ isDetected
    /\ getLandmarks = HandHalf
    /\ getOpenness > 0
    /\ _onHandUpdate = UiUpdate
    /\ _onHandLost = UiLost

(***************************************************************************)
(* What the "hand updated" callback sees, and which operation writes what. *)
(***************************************************************************)

\* C23: when the "hand updated" callback is invoked the module state
\* already reflects the new frame: isDetected() is true, getLandmarks() is
\* the landmark set of this frame and getTargetOpenness() is the openness
\* computed from it; the openness and the rotation of the payload equal
\* getOpenness() and getRotation(), the openness being the smoothed value
\* the last update() tick left, not the target just computed.
C23_CallbackSeesNewFrame ==
    (lastOp = "hand" /\ Invoked("update", calls) = 1) =>
        /\ isDetected
        /\ getLandmarks # Null
        /\ calls[1].landmarks = getLandmarks
        /\ getTargetOpenness = OpennessOf[getLandmarks]
        /\ getTargetOpenness = frameTarget
        /\ calls[1].openness = getOpenness
        /\ calls[1].openness = tickOpenness
        /\ calls[1].rotation = getRotation

\* the callback is invoked for a frame whose target openness and target
\* rotation both differ from the smoothed values it receives
C23_Witness ==
    /\ lastOp = "hand"
    /\ Invoked("update", calls) = 1
    /\ isDetected
    /\ calls[1].openness = getOpenness
    /\ calls[1].openness > 0
    /\ calls[1].openness # getTargetOpenness
    /\ calls[1].rotation # Null
    /\ calls[1].rotation = getRotation
    /\ calls[1].rotation # _targetHandRotation

\* C24: the two producers write disjoint state.  An update() tick changes
\* nothing but the smoothed openness and the smoothed orientation (with the
\* copies the accessors return): the targets, the detection flag, the
\* landmarks, the handedness, the callback slots and the camera-feed toggle
\* stay as they were.  A detector frame, with or without a hand, changes
\* neither the smoothed openness nor the smoothed orientation.
C24_DisjointWrites ==
    [][ /\ updateHandTracking =>
               UNCHANGED << _targetHandOpenness, _targetHandRotation,
                            _isHandDetected, _landmarks, _handedness,
                            _onHandUpdate, _onHandLost, _showCameraFeed >>
        /\ \A results \in AppFrames :
               onHandResults(results) =>
                   UNCHANGED << _smoothedOpenness, _handOpenness,
                                _smoothedHandRotation, _handRotation >>
      ]_vars

\* a tick has moved the smoothed openness and the smoothed orientation of a
\* detected hand towards targets they have not reached, with both callbacks
\* registered
C24_Witness ==
    /\ lastOp = "update"
    /\ currentDemo # Null
    /\ _isHandDetected
    /\ _onHandUpdate # Null
    /\ _onHandLost # Null
    /\ _handOpenness > 0
    /\ _handOpenness = _smoothedOpenness
    /\ _handOpenness # _targetHandOpenness
    /\ _handRotation # Null
    /\ _handRotation # IdentityQuaternion
    /\ _handRotation = _smoothedHandRotation
    /\ _handRotation # _targetHandRotation

(***************************************************************************)
(* Launches that overlap (SpecLaunch).                                     *)
(***************************************************************************)

\* C21: hand tracking is initialised only once: as long as no
\* HandTracking.init has failed, at most one HandTracking.init has been
\* started, whatever launchDemo calls were made and however they overlap.
C21_InitStartedOnce ==
    initRejected = 0 => initStarted <= 1


\* the demos initialised and not destroyed
LiveDemos == live[CosmicPrismDemo] + live[AirplaneDemo]

\* C25: at most one demo is live at any time: in every reachable state,
\* launches that overlapped included, at most one init() has run without a
\* matching destroy(), and the demo it belongs to is currentDemo.
C25_AtMostOneLiveDemo ==
    /\ LiveDemos <= 1
    /\ LiveDemos = 1 => (currentDemo # Null /\ live[currentDemo] = 1)

\* C26: a failed launch affects only itself: the step in which
\* HandTracking.init rejects initialises no demo and leaves currentDemo and
\* handTrackingInitialized as they were (null and false when no launch had
\* succeeded), and the returnToMenu its timer runs 3 seconds later never
\* destroys a demo that was launched successfully after the failure.
C26_FailedLaunchAffectsOnlyItself ==
    /\ [][initRejected' # initRejected =>
             UNCHANGED << currentDemo, handTrackingInitialized, live,
                          animationId >>]_vars
    /\ [](~timerKilled)

(***************************************************************************)
(* The chess demo (SpecChess, SpecChessOpen, SpecChessRestart).            *)
(***************************************************************************)

\* C22: a piece is grabbed only by closing the fist: when every frame in
\* which a hand is detected has a target openness of 0.45 or more, no
\* piece is ever grabbed, from the first detection on and across any loss
\* and re-detection of the hand.  (Every hand of SpecChessOpen is fully
\* open.)
C22_OpenHandNeverGrabs ==
    grabbedPiece = Null

\* C27: a grabbed piece is not dropped when the hand is lost: while a piece
\* is grabbed and no hand is detected, no step drops the piece, makes a
\* move, schedules the AI or changes lastGrabState; and the step that
\* releases a grabbed piece is an animation frame with a detected hand
\* whose smoothed openness, as that frame's update() leaves it, is 0.45 or
\* more.
C27_NoDropOnHandLost ==
    [][ /\ (grabbedPiece # Null /\ ~isDetected) =>
               UNCHANGED << grabbedPiece, selectedSquare,
                            originalPiecePosition, meshPosition, chess,
                            startTimers, lastGrabState >>
        /\ (grabbedPiece # Null /\ grabbedPiece' = Null) =>
               /\ isDetected
               /\ isDetected'
               /\ lastOp' = "update"
               /\ ~isGrabbing(getOpenness')
               /\ lastGrabState /\ ~lastGrabState'
      ]_vars

\* a piece is grabbed and held through the loss of the hand: animation
\* frames have run since the hand was lost (the smoothed openness has
\* fallen to 0) and the piece is still in the air
C27_Witness ==
    /\ grabbedPiece # Null
    /\ ~isDetected
    /\ ~handModelVisible
    /\ lastOp = "update"
    /\ getOpenness = 0
    /\ lastGrabState
    /\ meshPosition = << "hand" >>
    /\ chess = NewGame

\* C28: dropping a grabbed piece on a square the move to which is illegal,
\* or off the board, changes nothing in the game: the position and the
\* side to move are unchanged, no AI move is scheduled, the piece is back
\* where it was grabbed from and grabbedPiece, selectedSquare and
\* originalPiecePosition are cleared; a legal drop makes exactly one move,
\* leaves Black to move and schedules exactly one AI move unless the game
\* is over, none if it is.
C28_DropEffects ==
    [][ \A hover \in Hovers :
          (chessAnimate(hover) /\ grabbedPiece # Null /\ grabbedPiece' = Null) =>
              /\ grabbedPiece' = Null
              /\ selectedSquare' = Null
              /\ originalPiecePosition' = Null
              /\ thinkTimers' = thinkTimers
              /\ isThinking' = isThinking
              /\ IF hover.square # Null /\ hover.legal /\ ~chess.over
                 THEN /\ chess'.ply = chess.ply + 1
                      /\ chess.turn = "w" /\ chess'.turn = "b"
                      /\ startTimers' = startTimers
                                          + (IF chess'.over THEN 0 ELSE 1)
                 ELSE /\ chess' = chess
                      /\ startTimers' = startTimers
                      /\ meshPosition = << "hand" >>
                      /\ meshPosition' = selectedSquare
                      /\ meshPosition' = originalPiecePosition
      ]_vars

\* a piece taken from e2 has been dropped without a move and is back on
\* e2, the game untouched and no AI timer pending
C28_Witness ==
    /\ chess = NewGame
    /\ gameStarted
    /\ grabbedPiece = Null
    /\ selectedSquare = Null
    /\ originalPiecePosition = Null
    /\ meshPosition = << "e2" >>
    /\ ~lastGrabState
    /\ startTimers = 0
    /\ thinkTimers = 0

\* C29: the chess AI moves only for Black and only on Black's turn, also
\* when destroy() and a fresh init() happen while an AI timer is pending:
\* no timer callback makes a move for White, none runs while chess is
\* null, and isThinking is true only while a thinking timer that will
\* reset it is pending.
C29_AiOnlyBlack ==
    /\ aiMovedAs \subseteq { "b" }
    /\ ~ranOnNull
    /\ isThinking => thinkTimers > 0

(***************************************************************************)
(* The airplane demo (SpecAirplane).                                       *)
(***************************************************************************)

\* C30: destroy() resets the flight state: whenever the airplane demo is
\* not running, before its first init() and after every destroy(), the
\* plane position, the plane rotation, the target roll and pitch, the
\* current roll and pitch and the trail have their initial values, so that
\* the next init() starts in level flight.
C30_DestroyResetsFlightState ==
    ~airplane =>
        /\ planePosition = StartPosition
        /\ planeRotation = LevelRotation
        /\ targetRoll = 0
        /\ targetPitch = 0
        /\ currentRoll = 0
        /\ currentPitch = 0
        /\ trailPositions = EmptyTrail

====
